---- MODULE Spec2Model ----
(***************************************************************************)
(* Verification model of the expense tracker.                              *)
(*                                                                         *)
(*   Spec       expense_tracker/anomaly_detector.py and its caller in      *)
(*              expense_tracker/cli.py                                     *)
(*   SpecIO     expense_tracker/models.py to_dict / from_dict and the      *)
(*              save and load of expense_tracker/cli.py                    *)
(*   SpecCat    expense_tracker/categorizer.py and categorizer.py          *)
(*   SpecDup    analyzer.py find_duplicate_transactions                    *)
(*   SpecParse  transaction_parser.py, expense_tracker/ocr.py and the      *)
(*              pipeline of money.py                                       *)
(*   SpecCli    the process, categorize, detect and analyze commands of    *)
(*              expense_tracker/cli.py; SpecCliIO adds save and load       *)
(*   SpecOrder  the order of the categories added at run time              *)
(*   SpecAn     analyzer.py on frames with and without optional columns    *)
(*   SpecFreq   the frequency detector of anomaly_detector.py              *)
(*   SpecCsv    transaction_parser.py _standardize_columns                 *)
(*   SpecBase   calculate_baseline_stats called on one list after another  *)
(*   SpecGroup  the z-score tests of analyzer.py and anomaly_detector.py   *)
(*                                                                         *)
(* The detectors work on amounts in whole currency units, so that their    *)
(* statistics are computed exactly: a mean is kept as sum/n, a variance as *)
(* (n*sumsq - sum^2)/n^2, a quartile as a multiple of 1/4.  An amount     *)
(* read from text is kept as mantissa / 10^places.  Texts are strings;     *)
(* their characters are taken with SubSeq.                                 *)
(***************************************************************************)
EXTENDS Integers, Sequences, FiniteSets, TLC

VARIABLES
    transactions,    \* the caller's working list of Transaction objects
    baseline_stats,  \* AnomalyDetector.baseline_stats: category -> statistics
    predictions,     \* rows of the working list the isolation forest labels -1
    file,            \* the JSON file of save_transactions / load_transactions
    expense_categories, \* ExpenseCategorizer.categories, in dict order
    categories,      \* TransactionCategorizer.categories, in dict order
    category_patterns, \* TransactionCategorizer.category_patterns, in dict order
    class_keywords,  \* TransactionCategorizer.CATEGORY_KEYWORDS as it is now
    shared,          \* the keys whose list in categories is the list of the class
    input,           \* the argument of the last operation
    df,              \* the DataFrame of the stand-alone parser and analyzer
    returned,        \* value returned by the last operation
    op               \* name of the last operation

vars == <<transactions, baseline_stats, predictions, file, expense_categories,
          categories, category_patterns,
          class_keywords, shared, input, df, returned, op>>

\* the variables outside the detector and its caller
NotDetector == <<file, expense_categories, categories, category_patterns,
                 class_keywords, shared, input, df>>

\* the variables outside the CLI's save and load
NotPersistence ==
    <<baseline_stats, predictions, expense_categories, categories,
      category_patterns, class_keywords, shared, input, df>>

\* the variables outside the two categorizers
NotCategorizer == <<transactions, baseline_stats, predictions, file, df>>

\* the variables outside the stand-alone parser and analyzer
NotDataFrame ==
    <<transactions, baseline_stats, predictions, file, expense_categories,
      categories, category_patterns, class_keywords, shared>>

----------------------------------------------------------------------------
(* Bounds of the model *)

\* longest working list built from single transactions
MaxTx == 3

\* longest working list that is saved and loaded
MaxSaved == 2

\* lines of a statement text
MaxLines == 2

\* rows of the frame the analyzer works on
MaxRows == 3

\* categories and keywords a caller adds to a categorizer's configuration
MaxCustom == 4

----------------------------------------------------------------------------
(* Generic helpers *)

Abs(x) == IF x < 0 THEN -x ELSE x

Range(s) == {s[i] : i \in 1..Len(s)}

RECURSIVE SumSeq(_)
SumSeq(s) == IF s = <<>> THEN 0 ELSE Head(s) + SumSeq(Tail(s))

\* s with x inserted before the first element that is strictly greater under
\* key: one step of a stable insertion sort
RECURSIVE InsertBy(_, _, _)
InsertBy(key(_), x, s) ==
    IF s = <<>> THEN <<x>>
    ELSE IF key(x) < key(Head(s)) THEN <<x>> \o s
    ELSE <<Head(s)>> \o InsertBy(key, x, Tail(s))

\* list.sort(key=...): stable, ascending
RECURSIVE SortBy(_, _)
SortBy(key(_), s) ==
    IF s = <<>> THEN <<>>
    ELSE InsertBy(key, s[Len(s)], SortBy(key, SubSeq(s, 1, Len(s) - 1)))

----------------------------------------------------------------------------
(* Dates: datetime values at midnight, as [year, month, day] *)

IsLeap(y) == (y % 4 = 0) /\ ((y % 100 # 0) \/ (y % 400 = 0))

DaysInMonth(y, m) ==
    IF m = 2 THEN (IF IsLeap(y) THEN 29 ELSE 28)
    ELSE IF m \in {4, 6, 9, 11} THEN 30 ELSE 31

RECURSIVE DaysBeforeMonth(_, _)
DaysBeforeMonth(y, m) ==
    IF m = 1 THEN 0 ELSE DaysBeforeMonth(y, m - 1) + DaysInMonth(y, m - 1)

\* datetime.toordinal(): days since 0001-01-01, counted from 1
Ordinal(d) ==
    LET y == d.year - 1
    IN  365 * y + (y \div 4) - (y \div 100) + (y \div 400)
        + DaysBeforeMonth(d.year, d.month) + d.day

\* (b - a).days
DaysBetween(a, b) == Ordinal(b) - Ordinal(a)

Date(y, m, d) == [year |-> y, month |-> m, day |-> d]

----------------------------------------------------------------------------
(* expense_tracker/models.py: Transaction *)

Transaction(date, description, amount, category, is_anomaly) ==
    [date |-> date, description |-> description, amount |-> amount,
     category |-> category, is_anomaly |-> is_anomaly]

Flagged(txs) == {i \in 1..Len(txs) : txs[i].is_anomaly}

\* txs with is_anomaly set on the transactions at the positions in idx
SetFlags(txs, idx) ==
    [i \in 1..Len(txs) |->
        IF i \in idx THEN [txs[i] EXCEPT !.is_anomaly = TRUE] ELSE txs[i]]

----------------------------------------------------------------------------
(* expense_tracker/anomaly_detector.py: AnomalyDetector *)

\* len(transactions) below which detect_ml_anomalies gives up
MlMinSamples == 10

\* z-score threshold of the statistical detector (3 sigma rule)
ZThreshold == 3

\* positions of txs, in list order
Indices(txs) == [i \in 1..Len(txs) |-> i]

\* abs(amount) of the transactions of one category, in list order
CategoryAmounts(txs, c) ==
    LET idx == SelectSeq(Indices(txs), LAMBDA i : txs[i].category = c)
    IN  [k \in 1..Len(idx) |-> Abs(txs[idx[k]].amount)]

\* 4 * np.percentile(sorted, 25 * k) with numpy's linear interpolation:
\* the value at the fractional position k*(n-1)/4 of the sorted amounts
Percentile4(sorted, k) ==
    LET pos == k * (Len(sorted) - 1)
        lo  == (pos \div 4) + 1
        r   == pos % 4
    IN  IF r = 0 THEN 4 * sorted[lo]
        ELSE 4 * sorted[lo] + r * (sorted[lo + 1] - sorted[lo])

\* the statistics of one category; mean = sum/n, std^2 = (n*sumsq - sum^2)/n^2,
\* median = median4/4, q1 = q1_4/4, q3 = q3_4/4
CategoryStats(amounts) ==
    LET sorted == SortSeq(amounts, LAMBDA a, b : a < b)
    IN  [n       |-> Len(amounts),
         sum     |-> SumSeq(amounts),
         sumsq   |-> SumSeq([k \in 1..Len(amounts) |-> amounts[k] * amounts[k]]),
         median4 |-> Percentile4(sorted, 2),
         q1_4    |-> Percentile4(sorted, 1),
         q3_4    |-> Percentile4(sorted, 3)]

\* calculate_baseline_stats: every category of txs gets a fresh entry; the
\* dictionary is written into, not replaced
calculate_baseline_stats(stats, txs) ==
    LET cats == {txs[i].category : i \in 1..Len(txs)}
    IN  [c \in (DOMAIN stats) \cup cats |->
            IF c \in cats THEN CategoryStats(CategoryAmounts(txs, c)) ELSE stats[c]]

\* n^2 * std^2
VarianceN2(st) == st.n * st.sumsq - st.sum * st.sum

\* mutant: the comparison with the threshold is not strict
ZScoreTest_nonstrict(amount, st) ==
    /\ VarianceN2(st) > 0
    /\ (st.n * amount - st.sum) * (st.n * amount - st.sum)
           >= ZThreshold * ZThreshold * VarianceN2(st)

\* z-score method: std > 0 and abs((amount - mean) / std) > 3
ZScoreTest(amount, st) ==
    /\ VarianceN2(st) > 0
    /\ (st.n * amount - st.sum) * (st.n * amount - st.sum)
           > ZThreshold * ZThreshold * VarianceN2(st)

\* IQR method: amount outside [q1 - 1.5*iqr, q3 + 1.5*iqr] (all times 8)
IqrTest(amount, st) ==
    LET iqr4 == st.q3_4 - st.q1_4
    IN  \/ 8 * amount < 2 * st.q1_4 - 3 * iqr4
        \/ 8 * amount > 2 * st.q3_4 + 3 * iqr4

\* the rule of the statistical detector for one transaction
StatisticalRule(t, stats) ==
    /\ t.category \in DOMAIN stats
    /\ \/ ZScoreTest(Abs(t.amount), stats[t.category])
       \/ IqrTest(Abs(t.amount), stats[t.category])

\* mutant: the baseline is computed on every call
detect_statistical_anomalies_recomputing(stats, txs) ==
    LET base == calculate_baseline_stats(stats, txs)
        hit  == SelectSeq(Indices(txs), LAMBDA i : StatisticalRule(txs[i], base))
    IN  [baseline_stats |-> base,
         transactions   |-> SetFlags(txs, Range(hit)),
         anomalies      |-> hit]

\* detect_statistical_anomalies: the baseline is computed only when the
\* dictionary is empty; returns the anomalies in list order
detect_statistical_anomalies(stats, txs) ==
    LET base == IF DOMAIN stats = {} THEN calculate_baseline_stats(stats, txs)
                ELSE stats
        hit  == SelectSeq(Indices(txs), LAMBDA i : StatisticalRule(txs[i], base))
    IN  [baseline_stats |-> base,
         transactions   |-> SetFlags(txs, Range(hit)),
         anomalies      |-> hit]

\* the subsets of S with at most k elements
RECURSIVE SubsetsUpTo(_, _)
SubsetsUpTo(S, k) ==
    IF k = 0 THEN {{}}
    ELSE LET prev == SubsetsUpTo(S, k - 1)
         IN  prev \cup {p \cup {x} : p \in prev, x \in S}

\* What IsolationForest(contamination=0.1, random_state=42).fit_predict can
\* label -1 on the n rows of txs: the rows whose score lies strictly below the
\* 10th percentile of the n scores, which are at most ceil((n-1)/10) rows.
\* Which rows is left open; the labels depend on the rows' features alone
\* (amount, weekday, day of month, category), so they are fixed for a list.
MlPredictions(txs) ==
    SubsetsUpTo(1..Len(txs), (Len(txs) + 8) \div 10)

\* mutant: the forest is run whatever the sample size
detect_ml_anomalies_nominimum(txs, outliers) ==
    [transactions |-> SetFlags(txs, outliers),
     anomalies    |-> SelectSeq(Indices(txs), LAMBDA i : i \in outliers)]

\* detect_ml_anomalies, given the rows the forest labels -1
detect_ml_anomalies(txs, outliers) ==
    IF Len(txs) < MlMinSamples
    THEN [transactions |-> txs, anomalies |-> <<>>]
    ELSE [transactions |-> SetFlags(txs, outliers),
          anomalies    |-> SelectSeq(Indices(txs), LAMBDA i : i \in outliers)]

\* the keys of merchant_transactions in insertion order: the position of the
\* first transaction of every description
MerchantOrder(txs) ==
    SelectSeq(Indices(txs),
              LAMBDA i : \A j \in 1..(i - 1) : txs[j].description # txs[i].description)

\* mutant: the group is left in list order
MerchantGroup_unsorted(txs, desc) ==
    SelectSeq(Indices(txs), LAMBDA i : txs[i].description = desc)

\* merchant_transactions[desc] after trans_list.sort(key=date)
MerchantGroup(txs, desc) ==
    SortBy(LAMBDA i : Ordinal(txs[i].date),
           SelectSeq(Indices(txs), LAMBDA i : txs[i].description = desc))

\* time_diffs of a sorted group
TimeDiffs(txs, g) ==
    [k \in 1..(Len(g) - 1) |-> DaysBetween(txs[g[k]].date, txs[g[k + 1]].date)]

\* mutant: the comparison with the mean gap is missing
TooFrequent_within2(diffs, k) == diffs[k] < 2

\* diff < avg_diff / 3 and diff < 2, with avg_diff = sum(diffs)/len(diffs)
TooFrequent(diffs, k) ==
    /\ 3 * Len(diffs) * diffs[k] < SumSeq(diffs)
    /\ diffs[k] < 2

\* the transactions the inner loop visits for one group, in visiting order:
\* both ends of every pair that is too close
RECURSIVE GroupVisits(_, _, _)
GroupVisits(g, diffs, k) ==
    IF k > Len(diffs) THEN <<>>
    ELSE (IF TooFrequent(diffs, k) THEN <<g[k], g[k + 1]>> ELSE <<>>)
         \o GroupVisits(g, diffs, k + 1)

\* the visits of all groups, in the order of the outer loop
RECURSIVE FrequencyVisits(_, _)
FrequencyVisits(txs, order) ==
    IF order = <<>> THEN <<>>
    ELSE LET g == MerchantGroup(txs, txs[Head(order)].description)
         IN  (IF Len(g) < 2 THEN <<>> ELSE GroupVisits(g, TimeDiffs(txs, g), 1))
             \o FrequencyVisits(txs, Tail(order))

\* "if not t.is_anomaly: t.is_anomaly = True; anomalies.append(t)" for every
\* visit in turn
RECURSIVE MarkVisits(_, _, _)
MarkVisits(visits, txs, anomalies) ==
    IF visits = <<>> THEN [transactions |-> txs, anomalies |-> anomalies]
    ELSE IF txs[Head(visits)].is_anomaly
         THEN MarkVisits(Tail(visits), txs, anomalies)
         ELSE MarkVisits(Tail(visits), SetFlags(txs, {Head(visits)}),
                         Append(anomalies, Head(visits)))

\* detect_frequency_anomalies
detect_frequency_anomalies(txs) ==
    MarkVisits(FrequencyVisits(txs, MerchantOrder(txs)), txs, <<>>)

\* mutant: the reset loop is missing
ResetFlags_missing(txs) == txs

\* the reset loop at the head of detect_all_anomalies
ResetFlags(txs) ==
    [i \in 1..Len(txs) |-> [txs[i] EXCEPT !.is_anomaly = FALSE]]

\* detect_all_anomalies, given the rows the forest labels -1
detect_all_anomalies(stats, txs, outliers) ==
    LET s == detect_statistical_anomalies(stats, ResetFlags(txs))
        m == detect_ml_anomalies(s.transactions, outliers)
        f == detect_frequency_anomalies(m.transactions)
    IN  [baseline_stats |-> s.baseline_stats,
         transactions   |-> f.transactions,
         results        |-> [statistical |-> s.anomalies,
                             ml_based    |-> m.anomalies,
                             frequency   |-> f.anomalies]]

\* mutant: the quotient is truncated, not rounded
RoundHalfEven_truncated(num, den) == num \div den

\* round(num / den, 0) for num >= 0, den > 0: nearest integer, ties to even
RoundHalfEven(num, den) ==
    LET q == num \div den
        r == num % den
    IN  IF 2 * r < den THEN q
        ELSE IF 2 * r > den THEN q + 1
        ELSE IF q % 2 = 0 THEN q ELSE q + 1

\* get_anomaly_summary; anomaly_percentage is kept in hundredths of a percent
\* (round(x, 2) * 100), anomalies as the positions of the top ten
get_anomaly_summary(txs) ==
    LET anomalies == SelectSeq(Indices(txs), LAMBDA i : txs[i].is_anomaly)
        ranked    == SortBy(LAMBDA i : -Abs(txs[i].amount), anomalies)
    IN  [total_transactions   |-> Len(txs),
         anomaly_count        |-> Len(anomalies),
         anomaly_percentage   |->
             IF Len(txs) > 0
             THEN RoundHalfEven(Len(anomalies) * 100 * 100, Len(txs))
             ELSE 0,
         total_anomaly_amount |->
             SumSeq([k \in 1..Len(anomalies) |-> Abs(txs[anomalies[k]].amount)]),
         anomalies            |->
             SubSeq(ranked, 1, IF Len(ranked) < 10 THEN Len(ranked) ELSE 10)]

----------------------------------------------------------------------------
(* The caller of the detector: a working list that grows, one detector *)

\* the payees of the normal transactions; one of them occurs three times
StoreNames ==
    <<"Store 0", "Store 0", "Store 2", "Store 3", "Store 4",
      "Store 5", "Store 6", "Store 7", "Store 8", "Store 0">>

\* ten "normal" transactions after the test fixture: one category, amounts
\* from 50 upwards, on the first ten days of a month
NormalTransactions ==
    [i \in 1..10 |->
        Transaction(Date(2024, 1, i), StoreNames[i], 49 + i, "Shopping", FALSE)]

\* the "anomaly" transactions the fixture appends to the normal ones
AnomalyTransactions ==
    { Transaction(Date(2024, 1, 15), "Large Purchase", 1000, "Shopping", FALSE),
      Transaction(Date(2024, 1, 16), "Unusual Amount", 5,    "Shopping", FALSE) }

\* the single transactions a caller may add to a short list
TxPool ==
    { Transaction(Date(2024, 1, 1),  "Amazon", 40,  "Shopping",       FALSE),
      Transaction(Date(2024, 1, 2),  "Amazon", 60,  "Shopping",       FALSE),
      Transaction(Date(2024, 1, 10), "Amazon", -81, "Shopping",       FALSE),
      Transaction(Date(2024, 1, 2),  "Uber",   45,  "Transportation", FALSE) }

None == <<>>

\* no file at the path
NoFile == [exists |-> FALSE, records |-> <<>>]

\* the parts of the program a specification leaves unconstructed
Unused ==
    /\ expense_categories = None
    /\ categories = None
    /\ category_patterns = None
    /\ class_keywords = None
    /\ shared = {}
    /\ input = None
    /\ df = None

Init ==
    /\ transactions = <<>>
    /\ baseline_stats = <<>>
    /\ predictions = {}
    /\ file = NoFile
    /\ Unused
    /\ returned = None
    /\ op = "init"

\* a new Transaction is appended to a short working list
AddTransaction(t) ==
    /\ Len(transactions) < MaxTx
    /\ transactions' = Append(transactions, t)
    /\ predictions' \in MlPredictions(transactions')
    /\ returned' = None
    /\ op' = "add"
    /\ UNCHANGED <<baseline_stats, NotDetector>>

\* the fixture's normal transactions start the working list
AddNormalTransactions ==
    /\ transactions = <<>>
    /\ transactions' = NormalTransactions
    /\ predictions' \in MlPredictions(transactions')
    /\ returned' = None
    /\ op' = "add"
    /\ UNCHANGED <<baseline_stats, NotDetector>>

\* one of the fixture's anomaly transactions follows the normal ones
AddAnomalyTransaction(t) ==
    /\ Len(transactions) = Len(NormalTransactions)
    /\ transactions' = Append(transactions, t)
    /\ predictions' \in MlPredictions(transactions')
    /\ returned' = None
    /\ op' = "add"
    /\ UNCHANGED <<baseline_stats, NotDetector>>

\* AnomalyDetector(): a fresh detector replaces the old one
NewDetector ==
    /\ DOMAIN baseline_stats # {}
    /\ baseline_stats' = <<>>
    /\ returned' = None
    /\ op' = "new_detector"
    /\ UNCHANGED <<transactions, predictions, NotDetector>>

CalculateBaselineStats ==
    /\ baseline_stats' = calculate_baseline_stats(baseline_stats, transactions)
    /\ returned' = None
    /\ op' = "calculate_baseline_stats"
    /\ UNCHANGED <<transactions, predictions, NotDetector>>

DetectStatisticalAnomalies ==
    LET r == detect_statistical_anomalies(baseline_stats, transactions)
    IN  /\ baseline_stats' = r.baseline_stats
        /\ transactions' = r.transactions
        /\ returned' = r.anomalies
        /\ op' = "detect_statistical_anomalies"
        /\ UNCHANGED <<predictions, NotDetector>>

DetectMlAnomalies ==
    LET r == detect_ml_anomalies(transactions, predictions)
    IN  /\ transactions' = r.transactions
        /\ returned' = r.anomalies
        /\ op' = "detect_ml_anomalies"
        /\ UNCHANGED <<baseline_stats, predictions, NotDetector>>

DetectFrequencyAnomalies ==
    LET r == detect_frequency_anomalies(transactions)
    IN  /\ transactions' = r.transactions
        /\ returned' = r.anomalies
        /\ op' = "detect_frequency_anomalies"
        /\ UNCHANGED <<baseline_stats, predictions, NotDetector>>

DetectAllAnomalies ==
    LET r == detect_all_anomalies(baseline_stats, transactions, predictions)
    IN  /\ baseline_stats' = r.baseline_stats
        /\ transactions' = r.transactions
        /\ returned' = r.results
        /\ op' = "detect_all_anomalies"
        /\ UNCHANGED <<predictions, NotDetector>>

GetAnomalySummary ==
    /\ returned' = get_anomaly_summary(transactions)
    /\ op' = "get_anomaly_summary"
    /\ UNCHANGED <<transactions, baseline_stats, predictions, NotDetector>>

\* ExpenseTrackerCLI.detect_anomalies: detect_all_anomalies, then the summary
\* of the same list
CliDetectAnomalies ==
    /\ transactions # <<>>
    /\ LET r == detect_all_anomalies(baseline_stats, transactions, predictions)
       IN  /\ baseline_stats' = r.baseline_stats
           /\ transactions' = r.transactions
           /\ returned' = [results |-> r.results,
                           summary |-> get_anomaly_summary(r.transactions)]
           /\ op' = "cli_detect_anomalies"
           /\ UNCHANGED <<predictions, NotDetector>>

Next ==
    \/ \E t \in TxPool : AddTransaction(t)
    \/ AddNormalTransactions
    \/ \E t \in AnomalyTransactions : AddAnomalyTransaction(t)
    \/ NewDetector
    \/ CalculateBaselineStats
    \/ DetectStatisticalAnomalies
    \/ DetectMlAnomalies
    \/ DetectFrequencyAnomalies
    \/ DetectAllAnomalies
    \/ GetAnomalySummary
    \/ CliDetectAnomalies

Spec == Init /\ [][Next]_vars

----------------------------------------------------------------------------
(* Properties of the anomaly detector, checked under Spec *)

\* the returned lists of a detect_all_anomalies call, also through the CLI
IsDetectAll == op \in {"detect_all_anomalies", "cli_detect_anomalies"}

Results == IF op = "cli_detect_anomalies" THEN returned.results ELSE returned

\* the returned summary, from get_anomaly_summary or through the CLI
IsSummary == op \in {"get_anomaly_summary", "cli_detect_anomalies"}

Summary == IF op = "cli_detect_anomalies" THEN returned.summary ELSE returned

\* p is num/den rounded to the nearest integer, a tie going to the even one
IsNearest(p, num, den) ==
    /\ 2 * Abs(p * den - num) <= den
    /\ (2 * Abs(p * den - num) = den) => (p % 2 = 0)

\* C2: the summary's anomaly_count is the number of flagged transactions, its
\* total_transactions the size of the list, and its anomaly_percentage is
\* count/total*100 rounded to two decimals (here in hundredths of a percent),
\* 0 for the empty list.
C2_SummaryCounts ==
    IsSummary =>
        /\ Summary.anomaly_count = Cardinality(Flagged(transactions))
        /\ Summary.total_transactions = Len(transactions)
        /\ IF Len(transactions) = 0
           THEN Summary.anomaly_percentage = 0
           ELSE IsNearest(Summary.anomaly_percentage,
                          Cardinality(Flagged(transactions)) * 10000,
                          Len(transactions))

\* a summary taken right after detect_all_anomalies with a percentage that
\* needed rounding
C2_Witness ==
    /\ op = "cli_detect_anomalies"
    /\ returned.summary.anomaly_count > 0
    /\ (returned.summary.anomaly_count * 10000) % Len(transactions) # 0

\* C3: after detect_all_anomalies a transaction is flagged if and only if it
\* is in one of the three returned lists: flags from before the call are gone
\* unless a detector set them again, and no detector of the pass took back a
\* flag an earlier one had set; the frequency detector, running last, lists
\* nothing the two before it had flagged.
C3_FlaggedIffListed ==
    IsDetectAll =>
        /\ Flagged(transactions) =
               Range(Results.statistical) \cup Range(Results.ml_based)
                   \cup Range(Results.frequency)
        /\ Range(Results.frequency)
               \cap (Range(Results.statistical) \cup Range(Results.ml_based)) = {}

\* a pass in which all three detectors listed something and one transaction
\* stayed unflagged
C3_Witness ==
    /\ op = "detect_all_anomalies"
    /\ returned.statistical # <<>>
    /\ returned.ml_based # <<>>
    /\ returned.frequency # <<>>
    /\ Flagged(transactions) # 1..Len(transactions)

\* the transactions the frequency rule selects on txs: both ends of every
\* consecutive pair of a payee group that is too close
FrequencySelected(txs) == Range(FrequencyVisits(txs, MerchantOrder(txs)))

\* C4: every list returned by detect_all_anomalies holds exactly the
\* transactions its own detector's rule selects; in particular the frequency
\* list holds every transaction the frequency rule selects.
C4_ListsAreOwn ==
    IsDetectAll =>
        /\ Range(Results.statistical) =
               {i \in 1..Len(transactions) :
                    StatisticalRule(transactions[i], baseline_stats)}
        /\ Len(transactions) >= MlMinSamples =>
               Range(Results.ml_based) = predictions
        /\ Range(Results.frequency) = FrequencySelected(transactions)

\* C8: the z-score test is strict at 3 standard deviations.  For every
\* baseline entry with std > 0 and every amount, the test holds exactly when
\* |amount - mean| > 3*std; a baseline of mean 50 and std 10 flags 81 and
\* not 79 (nor 80); after a statistical detection every transaction whose
\* amount passes the test is listed and flagged; and the fixture's purchase
\* of 1000 among the amounts from 50 is listed.
C8_ZScoreStrict ==
    /\ \A c \in DOMAIN baseline_stats :
          LET st == baseline_stats[c]
              n2var == st.n * st.sumsq - st.sum * st.sum
          IN  /\ \A a \in 0..100 :
                    ZScoreTest(a, st) <=>
                        /\ n2var > 0
                        /\ Abs(st.n * a - st.sum) * Abs(st.n * a - st.sum)
                               > 9 * n2var
              /\ (st.sum = 50 * st.n /\ n2var = 100 * st.n * st.n) =>
                    /\ ZScoreTest(81, st)
                    /\ ~ZScoreTest(80, st)
                    /\ ~ZScoreTest(79, st)
    /\ (op = "detect_statistical_anomalies" \/ IsDetectAll) =>
          LET listed == IF IsDetectAll THEN Range(Results.statistical)
                        ELSE Range(returned)
          IN  \A i \in 1..Len(transactions) :
                 LET t == transactions[i]
                 IN  /\ ( /\ t.category \in DOMAIN baseline_stats
                          /\ ZScoreTest(Abs(t.amount), baseline_stats[t.category]) )
                        => (i \in listed /\ t.is_anomaly)
                     /\ (t.amount = 1000 /\ Len(transactions) > MlMinSamples)
                        => (i \in listed /\ t.is_anomaly)

\* a statistical detection against a baseline of mean 50 and std 10 that
\* listed a transaction of amount 81 (as -81)
C8_Witness ==
    /\ op = "detect_statistical_anomalies"
    /\ "Shopping" \in DOMAIN baseline_stats
    /\ baseline_stats["Shopping"].n = 2
    /\ baseline_stats["Shopping"].sum = 100
    /\ baseline_stats["Shopping"].sumsq = 5200
    /\ \E i \in Range(returned) : transactions[i].amount = -81

\* C10: on fewer than 10 transactions detect_ml_anomalies returns the empty
\* list and leaves the list as it is, and detect_all_anomalies returns an
\* empty ml_based list but still the statistical detector's anomalies and
\* those of the frequency detector.
C10_SmallSampleDegrades ==
    [][ /\ (op' = "detect_ml_anomalies" /\ Len(transactions) < 10)
            => (returned' = <<>> /\ transactions' = transactions)
        /\ (op' = "detect_all_anomalies" /\ Len(transactions) < 10)
            => /\ returned'.ml_based = <<>>
               /\ Range(returned'.statistical) =
                      {i \in 1..Len(transactions') :
                           StatisticalRule(transactions'[i], baseline_stats')}
               /\ Range(returned'.statistical) \cup Range(returned'.frequency)
                      = Flagged(transactions')
               /\ FrequencySelected(transactions') \subseteq Flagged(transactions')
      ]_vars

\* detect_ml_anomalies on a short list the forest would have labelled, one
\* of whose transactions carries a flag
C10_Witness ==
    /\ op = "detect_ml_anomalies"
    /\ Len(transactions) < 10
    /\ predictions # {}
    /\ Flagged(transactions) # {}
    /\ returned = <<>>

\* detect_all_anomalies on a short list the forest would have labelled, with
\* statistical and frequency anomalies returned
C10_WitnessAll ==
    /\ op = "detect_all_anomalies"
    /\ Len(transactions) < 10
    /\ predictions # {}
    /\ returned.statistical # <<>>
    /\ returned.frequency # <<>>

----------------------------------------------------------------------------
(* Text *)

\* the character of text at position k
Char(text, k) == SubSeq(text, k, k)

Digits == <<"0", "1", "2", "3", "4", "5", "6", "7", "8", "9">>

IsDigit(c) == c \in Range(Digits)

DigitValue(c) == (CHOOSE k \in 1..10 : Digits[k] = c) - 1

\* int(text) for a text of digits
RECURSIVE ToInt(_)
ToInt(text) ==
    IF Len(text) = 0 THEN 0
    ELSE 10 * ToInt(SubSeq(text, 1, Len(text) - 1)) + DigitValue(Char(text, Len(text)))

\* n written with at least width digits, zero-padded: "%0<width>d"
RECURSIVE ZeroPadded(_, _)
ZeroPadded(n, width) ==
    IF width <= 1 /\ n < 10 THEN Digits[n + 1]
    ELSE ZeroPadded(n \div 10, width - 1) \o Digits[(n % 10) + 1]

AllDigits(text) == \A k \in 1..Len(text) : IsDigit(Char(text, k))

\* a calendar date: what the datetime constructor accepts
ValidDate(y, m, d) ==
    /\ y \in 1..9999
    /\ m \in 1..12
    /\ d \in 1..DaysInMonth(y, m)

----------------------------------------------------------------------------
(* expense_tracker/models.py: to_dict / from_dict; cli.py: save / load *)

\* the time of day of a datetime at midnight, as isoformat writes it
Midnight == "T00:00:00"

\* datetime.isoformat() of a datetime at midnight: YYYY-MM-DDT00:00:00
isoformat(d) ==
    ZeroPadded(d.year, 4) \o "-" \o ZeroPadded(d.month, 2) \o "-"
        \o ZeroPadded(d.day, 2) \o Midnight

\* what stands for a raised ValueError: no datetime has year 0
ValueError == [year |-> 0, month |-> 0, day |-> 0]

\* mutant: the day is read before the month
fromisoformat_dayfirst(text) ==
    IF /\ Len(text) = 19
       /\ AllDigits(SubSeq(text, 1, 4)) /\ Char(text, 5) = "-"
       /\ AllDigits(SubSeq(text, 6, 7)) /\ Char(text, 8) = "-"
       /\ AllDigits(SubSeq(text, 9, 10))
       /\ SubSeq(text, 11, 19) = Midnight
       /\ ValidDate(ToInt(SubSeq(text, 1, 4)), ToInt(SubSeq(text, 9, 10)),
                    ToInt(SubSeq(text, 6, 7)))
    THEN Date(ToInt(SubSeq(text, 1, 4)), ToInt(SubSeq(text, 9, 10)),
              ToInt(SubSeq(text, 6, 7)))
    ELSE ValueError

\* datetime.fromisoformat() on the texts isoformat writes for midnight:
\* YYYY-MM-DD, then the time; ValueError for anything that is no date
fromisoformat(text) ==
    IF /\ Len(text) = 19
       /\ AllDigits(SubSeq(text, 1, 4)) /\ Char(text, 5) = "-"
       /\ AllDigits(SubSeq(text, 6, 7)) /\ Char(text, 8) = "-"
       /\ AllDigits(SubSeq(text, 9, 10))
       /\ SubSeq(text, 11, 19) = Midnight
       /\ ValidDate(ToInt(SubSeq(text, 1, 4)), ToInt(SubSeq(text, 6, 7)),
                    ToInt(SubSeq(text, 9, 10)))
    THEN Date(ToInt(SubSeq(text, 1, 4)), ToInt(SubSeq(text, 6, 7)),
              ToInt(SubSeq(text, 9, 10)))
    ELSE ValueError

\* Transaction.to_dict
to_dict(t) ==
    [date        |-> isoformat(t.date),
     description |-> t.description,
     amount      |-> t.amount,
     category    |-> t.category,
     is_anomaly  |-> t.is_anomaly]

\* Transaction.from_dict: the date text is parsed, the rest passed on
from_dict(data) ==
    Transaction(fromisoformat(data.date), data.description, data.amount,
                data.category, data.is_anomaly)

\* the transactions a working set may hold at any stage of the pipeline
SavedPool ==
    { Transaction(Date(2024, 1, 15),  "Test Store", 50,   "Shopping",       FALSE),
      Transaction(Date(2023, 12, 5),  "Uber",       -45,  "Transportation", TRUE),
      Transaction(Date(2024, 2, 29),  "Amazon",     1000, "Uncategorized",  FALSE) }

InitIO ==
    /\ transactions = <<>>
    /\ file = NoFile
    /\ Unused
    /\ baseline_stats = <<>>
    /\ predictions = {}
    /\ returned = None
    /\ op = "init"

\* a transaction enters the working set
Admit(t) ==
    /\ Len(transactions) < MaxSaved
    /\ transactions' = Append(transactions, t)
    /\ returned' = None
    /\ op' = "admit"
    /\ UNCHANGED <<file, NotPersistence>>

\* ExpenseTrackerCLI(): a new run starts with an empty working set; the file
\* of an earlier run is still there
NewSession ==
    /\ transactions' = <<>>
    /\ returned' = None
    /\ op' = "new_session"
    /\ UNCHANGED <<file, NotPersistence>>

\* save_transactions: nothing is written for an empty working set
SaveTransactions ==
    /\ file' = IF transactions = <<>> THEN file
               ELSE [exists  |-> TRUE,
                     records |-> [i \in 1..Len(transactions) |->
                                     to_dict(transactions[i])]]
    /\ returned' = None
    /\ op' = "save_transactions"
    /\ UNCHANGED <<transactions, NotPersistence>>

\* load_transactions: the working set is replaced by the file's records; a
\* missing file or a date that does not parse raises and replaces nothing
LoadTransactions ==
    LET loaded == [i \in 1..Len(file.records) |-> from_dict(file.records[i])]
    IN  IF ~file.exists
        THEN /\ returned' = "FileNotFoundError"
             /\ op' = "load_failed"
             /\ UNCHANGED <<transactions, file, NotPersistence>>
        ELSE IF \E i \in 1..Len(loaded) : loaded[i].date = ValueError
        THEN /\ returned' = ValueError
             /\ op' = "load_failed"
             /\ UNCHANGED <<transactions, file, NotPersistence>>
        ELSE /\ transactions' = loaded
             /\ returned' = None
             /\ op' = "load_transactions"
             /\ UNCHANGED <<file, NotPersistence>>

NextIO ==
    \/ \E t \in SavedPool : Admit(t)
    \/ NewSession
    \/ SaveTransactions
    \/ LoadTransactions

SpecIO == InitIO /\ [][NextIO]_vars

IsLoad == op \in {"load_transactions", "load_failed"}

\* C5 as stated: saving any working set, empty or not, and loading it again
\* gives a working set with the same tuples in the same order.
C5_RoundTripAnySet ==
    [][ (op = "save_transactions" /\ IsLoad')
            => (op' = "load_transactions" /\ transactions' = transactions) ]_vars

\* C5 amended: saving a non-empty working set and loading it again gives a
\* working set with the same (date, description, amount, category,
\* is_anomaly) tuples in the same order.
C5_RoundTripNonEmpty ==
    [][ (op = "save_transactions" /\ transactions # <<>> /\ IsLoad')
            => (op' = "load_transactions" /\ transactions' = transactions) ]_vars

\* a loaded working set of two transactions, one of them flagged, that is
\* what the file holds
C5_Witness ==
    /\ op = "load_transactions"
    /\ Len(transactions) = 2
    /\ transactions[1].is_anomaly # transactions[2].is_anomaly
    /\ file.records = [i \in 1..2 |-> to_dict(transactions[i])]

----------------------------------------------------------------------------
(* Strings: str.lower() and the substring test *)

UpperCase == "ABCDEFGHIJKLMNOPQRSTUVWXYZ"

LowerCase == "abcdefghijklmnopqrstuvwxyz"

UpperLetters == { Char(UpperCase, k) : k \in 1..26 }

ToLower ==
    [c \in UpperLetters |->
        Char(LowerCase, CHOOSE k \in 1..26 : Char(UpperCase, k) = c)]

LowerChar(c) == IF c \in UpperLetters THEN ToLower[c] ELSE c

\* str.lower()
RECURSIVE Lower(_)
Lower(text) ==
    IF Len(text) = 0 THEN ""
    ELSE LowerChar(Char(text, 1)) \o Lower(SubSeq(text, 2, Len(text)))

\* needle in haystack
Contains(needle, haystack) ==
    \E k \in 0..(Len(haystack) - Len(needle)) :
        SubSeq(haystack, k + 1, k + Len(needle)) = needle

\* the least element of a non-empty set of numbers
Least(S) == CHOOSE x \in S : \A y \in S : x <= y

\* dict[key] = value on a dict kept as the sequence of its items: a key that
\* is present keeps its place, a new key goes last
SetItem(dict, item) ==
    IF \E i \in 1..Len(dict) : dict[i].name = item.name
    THEN [i \in 1..Len(dict) |-> IF dict[i].name = item.name THEN item ELSE dict[i]]
    ELSE Append(dict, item)

HasKey(dict, key) == \E i \in 1..Len(dict) : dict[i].name = key

Keys(dict) == { dict[i].name : i \in 1..Len(dict) }

----------------------------------------------------------------------------
(* expense_tracker/categorizer.py: ExpenseCategorizer *)

\* models.py: ExpenseCategory(name, keywords), its totals at their defaults
ExpenseCategory(name, keywords) ==
    [name |-> name, keywords |-> keywords, total_amount |-> 0,
     transaction_count |-> 0]

\* ExpenseCategory.add_transaction
add_transaction(category, amount) ==
    [category EXCEPT !.total_amount = @ + Abs(amount),
                     !.transaction_count = @ + 1]

\* ExpenseCategory.average_amount, in hundredths as round(x, 2) leaves it
average_amount(category) ==
    IF category.transaction_count = 0 THEN 0
    ELSE RoundHalfEven(category.total_amount * 100, category.transaction_count)

\* ExpenseCategorizer._initialize_categories
initialize_categories ==
    <<
      ExpenseCategory("Groceries",
        <<"grocery", "supermarket", "walmart", "target",
            "costco", "whole foods", "trader joe", "safeway", "kroger",
            "albertsons", "food mart">>),
      ExpenseCategory("Restaurants",
        <<"restaurant", "cafe", "coffee", "starbucks",
            "mcdonald", "burger", "pizza", "dining", "food delivery",
            "uber eats", "doordash", "grubhub">>),
      ExpenseCategory("Transportation",
        <<"gas", "fuel", "uber", "lyft", "taxi", "parking",
            "metro", "transit", "subway", "train", "bus", "toll", "chevron",
            "shell", "exxon", "bp">>),
      ExpenseCategory("Utilities",
        <<"electric", "electricity", "power", "gas company",
            "water", "sewage", "internet", "phone", "mobile", "cable",
            "utility">>),
      ExpenseCategory("Entertainment",
        <<"movie", "cinema", "theater", "theatre", "netflix",
            "spotify", "hulu", "disney", "amazon prime", "gaming", "concert",
            "music", "entertainment">>),
      ExpenseCategory("Shopping",
        <<"amazon", "ebay", "store", "shop", "retail",
            "clothing", "apparel", "fashion", "mall", "department">>),
      ExpenseCategory("Healthcare",
        <<"pharmacy", "doctor", "hospital", "medical", "health",
            "clinic", "dental", "dentist", "cvs", "walgreens", "rite aid">>),
      ExpenseCategory("Insurance",
        <<"insurance", "premium", "policy">>),
      ExpenseCategory("Housing",
        <<"rent", "mortgage", "lease", "property", "hoa",
            "homeowner">>),
      ExpenseCategory("Education",
        <<"tuition", "school", "university", "college",
            "education", "course", "book", "textbook", "student">>),
      ExpenseCategory("Fitness",
        <<"gym", "fitness", "yoga", "sport", "athletic",
            "exercise">>),
      ExpenseCategory("Travel",
        <<"hotel", "airbnb", "airline", "flight", "airport",
            "booking", "travel", "vacation", "resort">>),
      ExpenseCategory("Subscriptions",
        <<"subscription", "membership", "monthly", "annual fee">>)
    >>

\* mutant: a description without a keyword keeps the creation default
ExpenseCategorizer_categorize_transaction_unlabelled(cats, description) ==
    LET description_lower == Lower(description)
        hits == { i \in 1..Len(cats) :
                    \E k \in 1..Len(cats[i].keywords) :
                        Contains(cats[i].keywords[k], description_lower) }
    IN  IF hits = {} THEN "Uncategorized" ELSE cats[Least(hits)].name

\* ExpenseCategorizer.categorize_transaction: the description is lowered, the
\* keywords are used as they were given
ExpenseCategorizer_categorize_transaction(cats, description) ==
    LET description_lower == Lower(description)
        hits == { i \in 1..Len(cats) :
                    \E k \in 1..Len(cats[i].keywords) :
                        Contains(cats[i].keywords[k], description_lower) }
    IN  IF hits = {} THEN "Other" ELSE cats[Least(hits)].name

\* ExpenseCategorizer.add_custom_category
ExpenseCategorizer_add_custom_category(cats, name, keywords) ==
    SetItem(cats, ExpenseCategory(name, keywords))

\* the transactions with the category categorize_transaction gives each
RECURSIVE Categorized(_, _)
Categorized(cats, txs) ==
    IF txs = <<>> THEN <<>>
    ELSE LET last == txs[Len(txs)]
         IN  Append(Categorized(cats, SubSeq(txs, 1, Len(txs) - 1)),
                    [last EXCEPT !.category =
                        ExpenseCategorizer_categorize_transaction(cats,
                                                                  last.description)])

\* a category after add_transaction for each of the transactions that carry
\* its name, in the order of the list
RECURSIVE AddAll(_, _)
AddAll(category, txs) ==
    IF txs = <<>> THEN category
    ELSE LET before == AddAll(category, SubSeq(txs, 1, Len(txs) - 1))
         IN  IF txs[Len(txs)].category = category.name
             THEN add_transaction(before, txs[Len(txs)].amount)
             ELSE before

\* mutant: the flags are cleared while the categories are set
ExpenseCategorizer_categorize_transactions_unflagging(cats, txs) ==
    LET labelled == ResetFlags(Categorized(cats, txs))
    IN  [transactions |-> labelled,
         categories   |-> [c \in 1..Len(cats) |-> AddAll(cats[c], labelled)]]

\* ExpenseCategorizer.categorize_transactions: every transaction gets its
\* category, and a category of the dict under that name gets the transaction
\* added; the category of a transaction depends on the keywords only, so the
\* additions are made after the categories are set
ExpenseCategorizer_categorize_transactions(cats, txs) ==
    LET labelled == Categorized(cats, txs)
    IN  [transactions |-> labelled,
         categories   |-> [c \in 1..Len(cats) |-> AddAll(cats[c], labelled)]]

\* ExpenseCategorizer.get_category_summary: the categories with a
\* transaction, in dict order; the amounts are whole numbers, which
\* round(x, 2) leaves as they are, the average is kept in hundredths
get_category_summary(cats) ==
    LET counted == SelectSeq(cats, LAMBDA c : c.transaction_count > 0)
    IN  [k \in 1..Len(counted) |->
            [name              |-> counted[k].name,
             total_amount      |-> counted[k].total_amount,
             transaction_count |-> counted[k].transaction_count,
             average_amount    |-> average_amount(counted[k])]]

----------------------------------------------------------------------------
(* categorizer.py: TransactionCategorizer *)

\* TransactionCategorizer.CATEGORY_KEYWORDS
CATEGORY_KEYWORDS ==
    <<
      [name |-> "Food & Dining",
       keywords |-> <<"restaurant", "cafe", "coffee", "starbucks", "pizza",
            "burger", "mcdonald", "subway", "chipotle", "domino", "taco",
            "kfc", "wendy", "dunkin", "bakery", "diner", "grill", "kitchen",
            "bar", "pub", "bistro", "food", "dining", "eatery", "doordash",
            "ubereats", "grubhub", "zomato", "swiggy", "delivery">>],
      [name |-> "Groceries",
       keywords |-> <<"supermarket", "grocery", "walmart", "target",
            "costco", "safeway", "kroger", "albertsons", "whole foods",
            "trader joe", "aldi", "market", "fresh", "organic", "produce",
            "mart">>],
      [name |-> "Transportation",
       keywords |-> <<"gas", "fuel", "shell", "chevron", "exxon", "bp",
            "mobil", "uber", "lyft", "taxi", "cab", "transit", "metro",
            "bus", "train", "parking", "toll", "transportation", "airline",
            "flight", "airport">>],
      [name |-> "Shopping",
       keywords |-> <<"amazon", "ebay", "etsy", "shop", "store", "mall",
            "retail", "clothing", "apparel", "fashion", "shoes",
            "accessories", "electronics", "best buy", "apple store",
            "outlet", "boutique">>],
      [name |-> "Entertainment",
       keywords |-> <<"movie", "cinema", "theater", "netflix", "hulu",
            "spotify", "disney", "hbo", "prime video", "youtube", "gaming",
            "steam", "playstation", "xbox", "concert", "event", "tickets",
            "ticketmaster">>],
      [name |-> "Utilities",
       keywords |-> <<"electric", "electricity", "power", "gas company",
            "water", "sewer", "internet", "phone", "verizon", "at&t",
            "t-mobile", "sprint", "comcast", "spectrum", "utility", "bill">>],
      [name |-> "Healthcare",
       keywords |-> <<"pharmacy", "cvs", "walgreens", "doctor", "hospital",
            "clinic", "medical", "dental", "dentist", "health", "wellness",
            "urgent care", "lab", "prescription", "medicine", "drug">>],
      [name |-> "Rent/Housing",
       keywords |-> <<"rent", "lease", "apartment", "property", "landlord",
            "housing", "mortgage", "hoa", "home", "real estate", "realty">>],
      [name |-> "Insurance",
       keywords |-> <<"insurance", "premium", "policy", "geico",
            "progressive", "state farm", "allstate", "coverage">>],
      [name |-> "Education",
       keywords |-> <<"school", "university", "college", "tuition", "book",
            "course", "education", "learning", "academy", "institute",
            "udemy", "coursera", "textbook">>],
      [name |-> "Subscriptions",
       keywords |-> <<"subscription", "monthly", "membership", "annual",
            "renew", "gym", "fitness", "planet fitness", "24 hour", "crunch",
            "adobe", "microsoft", "office 365", "dropbox", "icloud">>],
      [name |-> "Personal Care",
       keywords |-> <<"salon", "spa", "barber", "haircut", "beauty",
            "cosmetic", "makeup", "skincare", "massage", "nail", "grooming">>],
      [name |-> "Financial",
       keywords |-> <<"bank", "atm", "fee", "charge", "interest", "transfer",
            "payment", "withdrawal", "deposit">>],
      [name |-> "Charity",
       keywords |-> <<"donation", "charity", "foundation", "nonprofit",
            "church", "temple", "mosque", "giving", "fundraiser">>],
      [name |-> "Travel",
       keywords |-> <<"hotel", "motel", "resort", "booking", "airbnb",
            "hostel", "marriott", "hilton", "hyatt", "expedia", "travel",
            "vacation">>],
      [name |-> "Pet Care",
       keywords |-> <<"pet", "vet", "veterinary", "petsmart", "petco",
            "grooming", "animal", "dog", "cat">>]
    >>

\* re.compile('|'.join(re.escape(kw) ...), re.IGNORECASE): the alternatives
\* of the pattern are the keywords taken literally, letter case folded
Compile(keywords) == [k \in 1..Len(keywords) |-> Lower(keywords[k])]

\* pattern.search(text): some alternative occurs in the text, letter case
\* ignored; a pattern of no alternatives is the empty pattern, which matches
\* every text
PatternSearch(pattern, text) ==
    \/ Len(pattern) = 0
    \/ LET folded == Lower(text)
       IN  \E k \in 1..Len(pattern) : Contains(pattern[k], folded)

\* TransactionCategorizer._compile_patterns: one pattern per category, in the
\* order of the categories
compile_patterns(cats) ==
    [i \in 1..Len(cats) |->
        [name |-> cats[i].name, pattern |-> Compile(cats[i].keywords)]]

\* TransactionCategorizer.categorize_transaction
TransactionCategorizer_categorize_transaction(patterns, merchant, description) ==
    LET text == Lower(merchant \o " " \o description)
        hits == { i \in 1..Len(patterns) : PatternSearch(patterns[i].pattern, text) }
    IN  IF hits = {} THEN "Other" ELSE patterns[Least(hits)].name

\* TransactionCategorizer.add_custom_category (without the recompilation)
TransactionCategorizer_add_custom_category(cats, name, keywords) ==
    SetItem(cats, [name |-> name, keywords |-> keywords])

\* TransactionCategorizer.update_category_keywords (without the
\* recompilation): the list under the key is extended in place
update_category_keywords(cats, name, keywords) ==
    IF HasKey(cats, name)
    THEN [i \in 1..Len(cats) |->
            IF cats[i].name = name
            THEN [cats[i] EXCEPT !.keywords = @ \o keywords]
            ELSE cats[i]]
    ELSE TransactionCategorizer_add_custom_category(cats, name, keywords)

----------------------------------------------------------------------------
(* Categorization: both categorizers, customised and applied *)

\* categories a caller adds
CustomCategories ==
    { [name |-> "Transfers", keywords |-> <<"Zelle">>],
      [name |-> "Markets",   keywords |-> <<"mart">>],
      [name |-> "Misc",      keywords |-> <<>>] }

\* categories with the keywords a caller adds to them or sets for them, new
\* categories and a default one
KeywordUpdates ==
    CustomCategories \union { [name |-> "Shopping", keywords |-> <<"zelle">>] }

\* descriptions and merchant names that are categorized
Descriptions ==
    { "Walmart Supercenter", "Starbucks Coffee", "Shell Gas Station",
      "Netflix Subscription", "Amazon Purchase", "Zelle", "XYZ",
      "Martin via Zelle" }

\* the second argument of TransactionCategorizer.categorize_transaction
SecondArguments == { "", "Payment" }

\* categories plus keywords of a configuration
ConfigSize(cats) ==
    Len(cats) + SumSeq([i \in 1..Len(cats) |-> Len(cats[i].keywords)])

\* the dicts a caller passes as custom_categories
CustomDicts ==
    { <<c>> : c \in KeywordUpdates }
    \cup { p \in CustomCategories \X CustomCategories : p[1] # p[2] }

\* dict.update(custom_categories): the items are set in their order
RECURSIVE Update(_, _)
Update(dict, items) ==
    IF items = <<>> THEN dict
    ELSE Update(SetItem(dict, Head(items)), Tail(items))

\* the patterns of the default configuration
DefaultPatterns == compile_patterns(CATEGORY_KEYWORDS)

\* one of the two categorizers is constructed: ExpenseCategorizer() of the
\* expense_tracker package or TransactionCategorizer() of the stand-alone
\* pipeline
InitCat ==
    /\ \/ /\ expense_categories = initialize_categories
          /\ categories = None
          /\ category_patterns = None
          /\ class_keywords = None
          /\ shared = {}
       \/ /\ expense_categories = None
          /\ categories = CATEGORY_KEYWORDS
          /\ category_patterns = DefaultPatterns
          /\ class_keywords = CATEGORY_KEYWORDS
          /\ shared = Keys(CATEGORY_KEYWORDS)
    /\ input = None
    /\ returned = None
    /\ op = "init"
    /\ transactions = <<>>
    /\ baseline_stats = <<>>
    /\ predictions = {}
    /\ file = NoFile
    /\ df = None

ExpenseAddCustomCategory(c) ==
    /\ expense_categories # None
    /\ expense_categories' =
           ExpenseCategorizer_add_custom_category(expense_categories, c.name, c.keywords)
    /\ ConfigSize(expense_categories') <= ConfigSize(initialize_categories) + MaxCustom
    /\ input' = c
    /\ returned' = None
    /\ op' = "ExpenseCategorizer.add_custom_category"
    /\ UNCHANGED <<categories, category_patterns,
                   class_keywords, shared, NotCategorizer>>

ExpenseCategorizeTransaction(description) ==
    /\ expense_categories # None
    /\ input' = [description |-> description]
    /\ returned' = ExpenseCategorizer_categorize_transaction(expense_categories,
                                                             description)
    /\ op' = "ExpenseCategorizer.categorize_transaction"
    /\ UNCHANGED <<expense_categories, categories, category_patterns,
                   class_keywords, shared, NotCategorizer>>

AddCustomCategory(c) ==
    /\ categories # None
    /\ categories' =
           TransactionCategorizer_add_custom_category(categories, c.name, c.keywords)
    /\ ConfigSize(categories') <= ConfigSize(CATEGORY_KEYWORDS) + MaxCustom
    /\ category_patterns' = compile_patterns(categories')
    /\ input' = c
    /\ returned' = None
    /\ shared' = shared \ {c.name}
    /\ op' = "TransactionCategorizer.add_custom_category"
    /\ UNCHANGED <<expense_categories, class_keywords, NotCategorizer>>

\* the list that is extended is also the list of the class when the entry
\* still is the one the shallow copy took over
UpdateCategoryKeywords(c) ==
    /\ categories # None
    /\ categories' = update_category_keywords(categories, c.name, c.keywords)
    /\ ConfigSize(categories') <= ConfigSize(CATEGORY_KEYWORDS) + MaxCustom
    /\ category_patterns' = compile_patterns(categories')
    /\ input' = c
    /\ returned' = None
    /\ class_keywords' =
           IF c.name \in shared
           THEN update_category_keywords(class_keywords, c.name, c.keywords)
           ELSE class_keywords
    /\ op' = "TransactionCategorizer.update_category_keywords"
    /\ UNCHANGED <<expense_categories, shared, NotCategorizer>>

\* TransactionCategorizer(): a new categorizer without custom categories; the
\* copy of the dict of the class is shallow, its lists are those of the class
NewCategorizer ==
    /\ categories # None
    /\ categories' = class_keywords
    /\ category_patterns' = compile_patterns(categories')
    /\ shared' = Keys(class_keywords)
    /\ input' = None
    /\ returned' = None
    /\ op' = "TransactionCategorizer"
    /\ UNCHANGED <<expense_categories, class_keywords, NotCategorizer>>

\* TransactionCategorizer(custom_categories): the shallow copy of the dict of
\* the class is updated with the caller's dict, whose lists are the caller's
NewCategorizerWith(custom_categories) ==
    /\ categories # None
    /\ categories' = Update(class_keywords, custom_categories)
    /\ ConfigSize(categories') <= ConfigSize(CATEGORY_KEYWORDS) + MaxCustom
    /\ category_patterns' = compile_patterns(categories')
    /\ shared' = Keys(class_keywords) \ Keys(custom_categories)
    /\ input' = custom_categories
    /\ returned' = None
    /\ op' = "TransactionCategorizer"
    /\ UNCHANGED <<expense_categories, class_keywords, NotCategorizer>>

CategorizeTransaction(merchant, description) ==
    /\ categories # None
    /\ input' = [merchant |-> merchant, description |-> description]
    /\ returned' = TransactionCategorizer_categorize_transaction(
                       category_patterns, merchant, description)
    /\ op' = "TransactionCategorizer.categorize_transaction"
    /\ UNCHANGED <<expense_categories, categories, category_patterns,
                   class_keywords, shared, NotCategorizer>>

NextCat ==
    \/ \E c \in CustomCategories : ExpenseAddCustomCategory(c)
    \/ \E d \in Descriptions : ExpenseCategorizeTransaction(d)
    \/ \E c \in CustomCategories : AddCustomCategory(c)
    \/ \E c \in KeywordUpdates : UpdateCategoryKeywords(c)
    \/ NewCategorizer
    \/ \E m \in Descriptions, d \in SecondArguments : CategorizeTransaction(m, d)

SpecCat == InitCat /\ [][NextCat]_vars

\* a categorizer whose categories are added, set anew and given at
\* construction, and that categorizes in between
NextOrder ==
    \/ \E c \in KeywordUpdates : ExpenseAddCustomCategory(c)
    \/ \E d \in Descriptions : ExpenseCategorizeTransaction(d)
    \/ \E c \in KeywordUpdates : AddCustomCategory(c)
    \/ \E custom_categories \in CustomDicts : NewCategorizerWith(custom_categories)
    \/ \E m \in Descriptions, d \in SecondArguments : CategorizeTransaction(m, d)

SpecOrder == InitCat /\ [][NextOrder]_vars

\* a keyword occurs in a text case-insensitively, as a substring
KeywordOccurs(keyword, text) == Contains(Lower(keyword), Lower(text))

\* the categories of a configuration with a keyword occurring in the text
Matching(cats, text) ==
    { i \in 1..Len(cats) :
        \E k \in 1..Len(cats[i].keywords) : KeywordOccurs(cats[i].keywords[k], text) }

\* C1: when some category has a keyword occurring case-insensitively as a
\* substring in the transaction text, categorize_transaction returns the
\* first such category in configuration order, for both categorizers.
C1_FirstMatchWins ==
    /\ (/\ op = "ExpenseCategorizer.categorize_transaction"
        /\ Matching(expense_categories, input.description) # {})
           => returned = expense_categories[
                  Least(Matching(expense_categories, input.description))].name
    /\ (/\ op = "TransactionCategorizer.categorize_transaction"
        /\ Matching(categories, input.merchant \o " " \o input.description) # {})
           => returned = categories[
                  Least(Matching(categories,
                                 input.merchant \o " " \o input.description))].name

----------------------------------------------------------------------------
(* analyzer.py: SpendingAnalyzer.find_duplicate_transactions *)

\* a row of the analyzer's DataFrame
Row(date, merchant, amount) == [date |-> date, merchant |-> merchant, amount |-> amount]

\* df.sort_values('date'): the index labels of the frame in date order, rows of
\* one date in their input order
sort_values(frame) ==
    LET DateOf(i) == Ordinal(frame[i].date)
    IN  SortBy(DateOf, [i \in 1..Len(frame) |-> i])

\* mutant: the end of the window is excluded
Similar_openwindow(frame, i, j, time_window) ==
    /\ frame[j].amount = frame[i].amount
    /\ Ordinal(frame[j].date) >= Ordinal(frame[i].date)
    /\ Ordinal(frame[j].date) < Ordinal(frame[i].date) + time_window
    /\ j # i

\* the mask of the inner selection: same amount, dated from the row's date to
\* time_window days later, another index label
Similar(frame, i, j, time_window) ==
    /\ frame[j].amount = frame[i].amount
    /\ Ordinal(frame[j].date) >= Ordinal(frame[i].date)
    /\ Ordinal(frame[j].date) <= Ordinal(frame[i].date) + time_window
    /\ j # i

\* the dict appended for row i and its similar row j
DuplicateRow(frame, i, j) ==
    [date1      |-> frame[i].date,
     merchant1  |-> frame[i].merchant,
     amount     |-> frame[i].amount,
     date2      |-> frame[j].date,
     merchant2  |-> frame[j].merchant,
     days_apart |-> DaysBetween(frame[i].date, frame[j].date)]

\* the elements of s at the positions where keep holds
RECURSIVE SelectRows(_, _)
SelectRows(keep(_), s) ==
    IF s = <<>> THEN <<>>
    ELSE LET rest == SelectRows(keep, SubSeq(s, 1, Len(s) - 1))
         IN  IF keep(Len(s)) THEN Append(rest, s[Len(s)]) ELSE rest

\* flattening of a sequence of sequences
RECURSIVE Concat(_)
Concat(ss) == IF ss = <<>> THEN <<>> ELSE Head(ss) \o Concat(Tail(ss))

\* mutant: equal rows are all kept
drop_duplicates_none(rows) == rows

\* DataFrame.drop_duplicates(): the first of equal rows is kept
drop_duplicates(rows) ==
    LET IsFirst(k) == \A m \in 1..(k - 1) : rows[m] # rows[k]
    IN  SelectRows(IsFirst, rows)

\* find_duplicate_transactions: for every row in date order, one result row
\* per similar row in date order; equal result rows are dropped
find_duplicate_transactions(frame, time_window) ==
    LET order == sort_values(frame)
        RowsOf(p) ==
            LET IsSimilar(q) == Similar(frame, order[p], order[q], time_window)
                similar == SelectRows(IsSimilar, order)
            IN  [k \in 1..Len(similar) |-> DuplicateRow(frame, order[p], similar[k])]
        duplicates == Concat([p \in 1..Len(order) |-> RowsOf(p)])
    IN  drop_duplicates(duplicates)

\* get_insights: the entry computed from find_duplicate_transactions()
DefaultTimeWindow == 1

get_insights(frame) ==
    [potential_duplicates |->
        Len(find_duplicate_transactions(frame, DefaultTimeWindow))]

\* a quotient of two integers, kept exact; NaN is the missing value
Ratio(num, den) == [num |-> num, den |-> den]

NaN == Ratio(0, 0)

RatioEq(a, b) ==
    IF a = NaN \/ b = NaN THEN a = b ELSE a.num * b.den = b.num * a.den

\* df.groupby('date')['amount'].sum().reset_index().sort_values('date'): one
\* row per distinct date with the sum of its amounts, in date order
daily_spending(frame) ==
    LET days == { Ordinal(frame[i].date) : i \in 1..Len(frame) }
        DayAt(k) == CHOOSE d \in days : Cardinality({ e \in days : e < d }) = k - 1
        DateOn(d) == frame[CHOOSE i \in 1..Len(frame) : Ordinal(frame[i].date) = d].date
        AmountOn(d) ==
            SumSeq([i \in 1..Len(frame) |->
                       IF Ordinal(frame[i].date) = d THEN frame[i].amount ELSE 0])
    IN  [k \in 1..Cardinality(days) |->
            [date |-> DateOn(DayAt(k)), amount |-> AmountOn(DayAt(k))]]

\* Series.rolling(window=window, min_periods=1).mean(): the mean of the last
\* window entries up to and including entry k, of fewer when fewer exist
rolling_mean(amounts, window, k) ==
    LET first == IF k - window + 1 > 1 THEN k - window + 1 ELSE 1
    IN  Ratio(SumSeq(SubSeq(amounts, first, k)), k - first + 1)

\* Series.diff(): entry k minus entry k - 1, missing for the first entry
diff(series, k) ==
    IF k = 1 THEN NaN
    ELSE Ratio(series[k].num * series[k - 1].den - series[k - 1].num * series[k].den,
               series[k].den * series[k - 1].den)

\* get_spending_trends: the daily frame with its moving_avg and trend columns
get_spending_trends(frame, window) ==
    LET daily == daily_spending(frame)
        amounts == [k \in 1..Len(daily) |-> daily[k].amount]
        moving_avg == [k \in 1..Len(daily) |-> rolling_mean(amounts, window, k)]
    IN  [k \in 1..Len(daily) |->
            [date       |-> daily[k].date,
             amount     |-> daily[k].amount,
             moving_avg |-> moving_avg[k],
             trend      |-> diff(moving_avg, k)]]

\* values of the window argument; 7 is the default
Windows == {1, 2, 7}

\* rows of a statement
RowPool ==
    { Row(Date(2024, 1, 1), "Uber",   60),
      Row(Date(2024, 1, 2), "Amazon", 60),
      Row(Date(2024, 1, 2), "Uber",   60),
      Row(Date(2024, 1, 3), "Amazon", 60),
      Row(Date(2024, 1, 2), "Amazon", 45),
      Row(Date(2024, 2, 1), "Amazon", 45) }

\* values of the time_window argument; 1 is the default
TimeWindows == {0, 1, 2}

InitDup ==
    /\ df = <<>>
    /\ input = None
    /\ returned = None
    /\ op = "init"
    /\ transactions = <<>>
    /\ baseline_stats = <<>>
    /\ predictions = {}
    /\ file = NoFile
    /\ expense_categories = None
    /\ categories = None
    /\ category_patterns = None
    /\ class_keywords = None
    /\ shared = {}

\* the frame the analyzer is constructed on gets one more row
AddRow(r) ==
    /\ Len(df) < MaxRows
    /\ df' = Append(df, r)
    /\ input' = None
    /\ returned' = None
    /\ op' = "add_row"
    /\ UNCHANGED NotDataFrame

FindDuplicateTransactions(time_window) ==
    /\ input' = [time_window |-> time_window]
    /\ returned' = find_duplicate_transactions(df, time_window)
    /\ op' = "find_duplicate_transactions"
    /\ UNCHANGED <<df, NotDataFrame>>

GetInsights ==
    /\ input' = None
    /\ returned' = get_insights(df)
    /\ op' = "get_insights"
    /\ UNCHANGED <<df, NotDataFrame>>

GetSpendingTrends(window) ==
    /\ input' = [window |-> window]
    /\ returned' = get_spending_trends(df, window)
    /\ op' = "get_spending_trends"
    /\ UNCHANGED <<df, NotDataFrame>>

NextDup ==
    \/ \E r \in RowPool : AddRow(r)
    \/ \E w \in TimeWindows : FindDuplicateTransactions(w)
    \/ GetInsights
    \/ \E w \in Windows : GetSpendingTrends(w)

SpecDup == InitDup /\ [][NextDup]_vars

\* a result row relates the rows a and b of the frame, in either order
Relates(row, a, b) ==
    /\ row.amount = a.amount
    /\ \/ /\ row.date1 = a.date /\ row.merchant1 = a.merchant
          /\ row.date2 = b.date /\ row.merchant2 = b.merchant
       \/ /\ row.date1 = b.date /\ row.merchant1 = b.merchant
          /\ row.date2 = a.date /\ row.merchant2 = a.merchant

\* C6: two distinct transactions with the same amount whose dates are at most
\* time_window days apart are reported together in some row of the result,
\* whichever of them is earlier or comes first in the input.
C6_DuplicatesSymmetric ==
    op = "find_duplicate_transactions" =>
        \A i, j \in 1..Len(df) :
            (/\ i # j
             /\ df[i].amount = df[j].amount
             /\ Abs(DaysBetween(df[i].date, df[j].date)) <= input.time_window)
            => \E k \in 1..Len(returned) : Relates(returned[k], df[i], df[j])

\* the later of two transactions exactly time_window days apart comes first
\* in the input, and the result has a row
C6_Witness ==
    /\ op = "find_duplicate_transactions"
    /\ Len(df) >= 2
    /\ df[1].amount = df[2].amount
    /\ DaysBetween(df[2].date, df[1].date) = input.time_window
    /\ \E k \in 1..Len(returned) : Relates(returned[k], df[1], df[2])

\* two result rows are about the same two transactions
SamePair(r1, r2) ==
    /\ r1.amount = r2.amount
    /\ \/ /\ r1.date1 = r2.date1 /\ r1.merchant1 = r2.merchant1
          /\ r1.date2 = r2.date2 /\ r1.merchant2 = r2.merchant2
       \/ /\ r1.date1 = r2.date2 /\ r1.merchant1 = r2.merchant2
          /\ r1.date2 = r2.date1 /\ r1.merchant2 = r2.merchant1

\* C7: no two rows of the result are about the same two transactions, neither
\* as the same row twice nor once as (A,B) and again as (B,A).
C7_NoDoubleReport ==
    op = "find_duplicate_transactions" =>
        \A k, m \in 1..Len(returned) :
            k # m => ~SamePair(returned[k], returned[m])

\* the daily totals dated within the window days that end on the date of
\* entry k
InTrailingDays(result, window, k) ==
    { m \in 1..Len(result) :
        /\ Ordinal(result[m].date) <= Ordinal(result[k].date)
        /\ Ordinal(result[m].date) > Ordinal(result[k].date) - window }

\* C11: get_spending_trends gives, for the daily totals in date order, at
\* entry k the mean of the daily totals dated within the trailing window of
\* window days ending at entry k, and as trend the first difference of that
\* mean, missing for the first entry.
C11_TrailingDayWindow ==
    op = "get_spending_trends" =>
        /\ \A k \in 1..(Len(returned) - 1) :
               Ordinal(returned[k].date) < Ordinal(returned[k + 1].date)
        /\ \A k \in 1..Len(returned) :
               LET within == InTrailingDays(returned, input.window, k)
                   total == SumSeq([m \in 1..Len(returned) |->
                                IF m \in within THEN returned[m].amount ELSE 0])
               IN  /\ RatioEq(returned[k].moving_avg,
                              Ratio(total, Cardinality(within)))
                   /\ returned[k].trend = diff([m \in 1..Len(returned) |->
                                                  returned[m].moving_avg], k)

----------------------------------------------------------------------------
(* Regular expressions, as the re module matches them: a pattern is a tree, *)
(* and Ends gives the positions where a match starting at a position can    *)
(* end, in the order in which backtracking tries them.  A position is the   *)
(* index of the next character, from 1.                                     *)

DigitChars == Range(Digits)

\* \s within one line
SpaceChars == {" ", "\t"}

\* [a-z]
LowerLetters == { Char(LowerCase, k) : k \in 1..26 }

Lit(s) == [t |-> "lit", s |-> s]

\* a literal under re.IGNORECASE
LitI(s) == [t |-> "liti", s |-> s]

OneOf(chars) == [t |-> "set", chars |-> chars]

Then(parts) == [t |-> "seq", parts |-> parts]

Either(parts) == [t |-> "alt", parts |-> parts]

\* greedy repetition {min,max}; max = Unbounded for * and +
Unbounded == -1

Rep(body, min, max) == [t |-> "rep", body |-> body, min |-> min, max |-> max]

Opt(body) == Rep(body, 0, 1)

Star(body) == Rep(body, 0, Unbounded)

Plus(body) == Rep(body, 1, Unbounded)

\* $ on a text without line breaks
EndOfText == [t |-> "end"]

RECURSIVE Ends(_, _, _)
RECURSIVE SeqEnds(_, _, _)
RECURSIVE SeqEndsFrom(_, _, _)
RECURSIVE AltEnds(_, _, _)
RECURSIVE RepEnds(_, _, _, _, _)
RECURSIVE RepEndsFrom(_, _, _, _, _)

Ends(r, text, p) ==
    CASE r.t = "set" ->
            IF p <= Len(text) /\ Char(text, p) \in r.chars THEN <<p + 1>> ELSE <<>>
      [] r.t = "lit" ->
            IF /\ p + Len(r.s) - 1 <= Len(text)
               /\ SubSeq(text, p, p + Len(r.s) - 1) = r.s
            THEN <<p + Len(r.s)>> ELSE <<>>
      [] r.t = "liti" ->
            IF /\ p + Len(r.s) - 1 <= Len(text)
               /\ Lower(SubSeq(text, p, p + Len(r.s) - 1)) = Lower(r.s)
            THEN <<p + Len(r.s)>> ELSE <<>>
      [] r.t = "end" -> IF p = Len(text) + 1 THEN <<p>> ELSE <<>>
      [] r.t = "seq" -> SeqEnds(r.parts, text, p)
      [] r.t = "alt" -> AltEnds(r.parts, text, p)
      [] r.t = "rep" -> RepEnds(r.body, r.min, r.max, text, p)

SeqEnds(parts, text, p) ==
    IF parts = <<>> THEN <<p>>
    ELSE SeqEndsFrom(Ends(Head(parts), text, p), Tail(parts), text)

SeqEndsFrom(starts, parts, text) ==
    IF starts = <<>> THEN <<>>
    ELSE SeqEnds(parts, text, Head(starts)) \o SeqEndsFrom(Tail(starts), parts, text)

AltEnds(parts, text, p) ==
    IF parts = <<>> THEN <<>>
    ELSE Ends(Head(parts), text, p) \o AltEnds(Tail(parts), text, p)

RepEnds(body, min, max, text, p) ==
    LET once == IF max = 0 THEN <<>>
                ELSE SelectSeq(Ends(body, text, p), LAMBDA q : q > p)
        less == IF min > 0 THEN min - 1 ELSE 0
        left == IF max > 0 THEN max - 1 ELSE max
    IN  RepEndsFrom(once, body, less, left, text)
            \o (IF min = 0 THEN <<p>> ELSE <<>>)

RepEndsFrom(starts, body, min, max, text) ==
    IF starts = <<>> THEN <<>>
    ELSE RepEnds(body, min, max, text, Head(starts))
            \o RepEndsFrom(Tail(starts), body, min, max, text)

NoMatch == [start |-> 0, end |-> 0]

\* match at position p, if any
MatchAt(r, text, p) ==
    LET ends == Ends(r, text, p)
    IN  IF ends = <<>> THEN NoMatch ELSE [start |-> p, end |-> Head(ends)]

\* pattern.search(text) from position p on: the leftmost match
RECURSIVE SearchFrom(_, _, _)
SearchFrom(r, text, p) ==
    IF p > Len(text) + 1 THEN NoMatch
    ELSE LET m == MatchAt(r, text, p)
         IN  IF m # NoMatch THEN m ELSE SearchFrom(r, text, p + 1)

\* pattern.search(text)
Search(r, text) == SearchFrom(r, text, 1)

\* match.group()
Group(text, m) == SubSeq(text, m.start, m.end - 1)

\* re.findall(pattern, text) for a pattern without groups: the matches from
\* left to right, each search starting where the last match ended
RECURSIVE FindAllFrom(_, _, _)
FindAllFrom(r, text, p) ==
    LET m == SearchFrom(r, text, p)
    IN  IF m = NoMatch THEN <<>>
        ELSE <<Group(text, m)>>
                \o FindAllFrom(r, text, IF m.end > m.start THEN m.end ELSE m.end + 1)

FindAll(r, text) == FindAllFrom(r, text, 1)

\* str.strip() of a line
RECURSIVE LStrip(_)
LStrip(text) ==
    IF Len(text) > 0 /\ Char(text, 1) \in SpaceChars
    THEN LStrip(SubSeq(text, 2, Len(text))) ELSE text

RECURSIVE RStrip(_)
RStrip(text) ==
    IF Len(text) > 0 /\ Char(text, Len(text)) \in SpaceChars
    THEN RStrip(SubSeq(text, 1, Len(text) - 1)) ELSE text

Strip(text) == LStrip(RStrip(text))

\* str.replace(old, ""): every occurrence of a non-empty old, left to right
RECURSIVE Remove(_, _)
Remove(text, old) ==
    IF Len(text) < Len(old) \/ Len(old) = 0 THEN text
    ELSE IF SubSeq(text, 1, Len(old)) = old
         THEN Remove(SubSeq(text, Len(old) + 1, Len(text)), old)
         ELSE Char(text, 1) \o Remove(SubSeq(text, 2, Len(text)), old)

\* the characters of text that are in chars
RECURSIVE Keep(_, _)
Keep(text, chars) ==
    IF Len(text) = 0 THEN ""
    ELSE (IF Char(text, 1) \in chars THEN Char(text, 1) ELSE "")
            \o Keep(SubSeq(text, 2, Len(text)), chars)

----------------------------------------------------------------------------
(* Numbers read from text: a float is kept as mantissa / 10^places *)

Decimal(mantissa, places) == [mantissa |-> mantissa, places |-> places]

\* what stands for the ValueError of float(): no number has places < 0
NotAFloat == Decimal(0, -1)

\* digits without their trailing zeros
RECURSIVE StripZeros(_)
StripZeros(digits) ==
    IF Len(digits) > 0 /\ Char(digits, Len(digits)) = "0"
    THEN StripZeros(SubSeq(digits, 1, Len(digits) - 1)) ELSE digits

\* positions of the characters of text that are in chars, ascending
Positions(text, chars) ==
    SelectSeq([k \in 1..Len(text) |-> k], LAMBDA k : Char(text, k) \in chars)

\* float(text) for the texts that reach it: an optional sign, digits with at
\* most one point and at least one digit, blanks around it ignored
Float(text) ==
    LET t        == Strip(text)
        signed   == Len(t) > 0 /\ Char(t, 1) \in {"+", "-"}
        body     == IF signed THEN SubSeq(t, 2, Len(t)) ELSE t
        points   == Positions(body, {"."})
        whole    == IF points = <<>> THEN body ELSE SubSeq(body, 1, points[1] - 1)
        fraction == IF points = <<>> THEN ""
                    ELSE StripZeros(SubSeq(body, points[1] + 1, Len(body)))
        value    == ToInt(whole \o fraction)
    IN  IF /\ Len(points) <= 1
           /\ Len(body) > Len(points)
           /\ \A k \in 1..Len(body) : Char(body, k) \in DigitChars \cup {"."}
        THEN Decimal(IF signed /\ Char(t, 1) = "-" THEN -value ELSE value,
                     Len(fraction))
        ELSE NotAFloat

----------------------------------------------------------------------------
(* transaction_parser.py: TransactionParser *)

Digit == OneOf(DigitChars)

Space == OneOf(SpaceChars)

\* [/-]
DateSeparator == OneOf({"/", "-"})

Months ==
    <<"Jan", "Feb", "Mar", "Apr", "May", "Jun", "Jul", "Aug", "Sep", "Oct", "Nov", "Dec">>

\* (?:Jan|Feb|...|Dec)[a-z]*
MonthWord ==
    Then(<<Either([k \in 1..12 |-> Lit(Months[k])]), Star(OneOf(LowerLetters))>>)

\* TransactionParser.DATE_PATTERNS
DATE_PATTERNS ==
    << Then(<<Rep(Digit, 1, 2), DateSeparator, Rep(Digit, 1, 2), DateSeparator,
              Rep(Digit, 2, 4)>>),
       Then(<<Rep(Digit, 4, 4), DateSeparator, Rep(Digit, 1, 2), DateSeparator,
              Rep(Digit, 1, 2)>>),
       Then(<<Rep(Digit, 1, 2), Plus(Space), MonthWord, Plus(Space), Rep(Digit, 2, 4)>>),
       Then(<<MonthWord, Plus(Space), Rep(Digit, 1, 2), Opt(Lit(",")), Plus(Space),
              Rep(Digit, 2, 4)>>) >>

\* the currency signs among the characters of the modelled lines (the class
\* of the source also has the euro, pound, yen and rupee signs)
CurrencySigns == {"$"}

\* \d{1,3}(?:,\d{3})*(?:\.\d{2})?
GroupedNumber ==
    Then(<<Rep(Digit, 1, 3), Star(Then(<<Lit(","), Rep(Digit, 3, 3)>>)),
           Opt(Then(<<Lit("."), Rep(Digit, 2, 2)>>))>>)

\* TransactionParser.AMOUNT_PATTERNS
AMOUNT_PATTERNS ==
    << Then(<<OneOf(CurrencySigns), Star(Space), GroupedNumber>>),
       Then(<<GroupedNumber, Star(Space),
              Either(<<Lit("USD"), Lit("EUR"), Lit("GBP"), Lit("INR"), Lit("RS")>>)>>),
       GroupedNumber >>

\* TransactionParser.__init__: the alternation of the patterns, in their order
date_regex == Either(DATE_PATTERNS)

amount_regex == Either(AMOUNT_PATTERNS)

\* ' '.join(text.split()): the words of the text, one blank between them
RECURSIVE JoinWords(_)
JoinWords(text) ==
    LET t == LStrip(text)
        blanks == Positions(t, SpaceChars)
    IN  IF Len(t) = 0 THEN ""
        ELSE IF blanks = <<>> THEN t
        ELSE LET rest == JoinWords(SubSeq(t, blanks[1], Len(t)))
             IN  SubSeq(t, 1, blanks[1] - 1)
                    \o (IF Len(rest) = 0 THEN "" ELSE " " \o rest)

\* re.sub(pattern, '', text) for a pattern that matches at most once
RemoveMatch(r, text) ==
    LET m == Search(r, text)
    IN  IF m = NoMatch THEN text
        ELSE SubSeq(text, 1, m.start - 1) \o SubSeq(text, m.end, Len(text))

\* ^(POS|ATM|ONLINE|DEBIT|CREDIT)\s* under re.IGNORECASE, tried at the start
MerchantPrefix ==
    Then(<<Either(<<LitI("POS"), LitI("ATM"), LitI("ONLINE"), LitI("DEBIT"),
                    LitI("CREDIT")>>), Star(Space)>>)

\* \s+(LLC|INC|CORP|LTD)\.?$ under re.IGNORECASE
MerchantSuffix ==
    Then(<<Plus(Space), Either(<<LitI("LLC"), LitI("INC"), LitI("CORP"), LitI("LTD")>>),
           Opt(Lit(".")), EndOfText>>)

\* TransactionParser._clean_merchant
clean_merchant(merchant) ==
    LET m        == MatchAt(MerchantPrefix, merchant, 1)
        unprefix == IF m = NoMatch THEN merchant
                    ELSE SubSeq(merchant, m.end, Len(merchant))
    IN  JoinWords(RemoveMatch(MerchantSuffix, unprefix))

\* TransactionParser._parse_line: None without a date or without an amount
parse_line(line) ==
    LET date_match   == Search(date_regex, line)
        amount_match == Search(amount_regex, line)
    IN  IF date_match = NoMatch \/ amount_match = NoMatch THEN None
        ELSE [date        |-> Group(line, date_match),
              merchant    |-> clean_merchant(
                                  Strip(SubSeq(line, date_match.end,
                                               amount_match.start - 1))),
              amount      |-> Group(line, amount_match),
              description |-> line]

\* the clock of the run: datetime.now()
Now == Date(2024, 6, 30)

\* the names dateutil reads as months, by their first three letters
MonthNames ==
    <<"January", "February", "March", "April", "May", "June", "July", "August",
      "September", "October", "November", "December">>

\* the month a word names, 0 for a word that names none
MonthOf(word) ==
    LET named == { k \in 1..12 : Lower(word) \in { Lower(Months[k]), Lower(MonthNames[k]) } }
    IN  IF Lower(word) = "sept" THEN 9
        ELSE IF named = {} THEN 0 ELSE Least(named)

\* the year dateutil makes of a year text: two digits are taken to the
\* century that brings them within 50 years of the clock
YearOf(digits) ==
    LET value   == ToInt(digits)
        century == (Now.year \div 100) * 100
    IN  IF Len(digits) > 2 THEN value
        ELSE IF value + century >= Now.year + 50 THEN value + century - 100
        ELSE IF value + century < Now.year - 50 THEN value + century + 100
        ELSE value + century

\* the datetime of year, month, day, or ValueError
MakeDate(y, m, d) == IF ValidDate(y, m, d) THEN Date(y, m, d) ELSE ValueError

\* the fields of a text around the characters in seps
Fields(text, seps) ==
    LET at == Positions(text, seps)
    IN  [k \in 1..(Len(at) + 1) |->
            SubSeq(text,
                   IF k = 1 THEN 1 ELSE at[k - 1] + 1,
                   IF k = Len(at) + 1 THEN Len(text) ELSE at[k] - 1)]

\* the fields without the empty ones
Words(text, seps) == SelectSeq(Fields(text, seps), LAMBDA w : Len(w) > 0)

\* dateutil.parser.parse(text, dayfirst=...) on the texts DATE_PATTERNS
\* matches: three numbers, or a day, a month word and a year
dateutil_parse(text, dayfirst) ==
    LET w == Words(text, {"/", "-", " ", "\t", ","})
        a == ToInt(w[1])
        b == ToInt(w[2])
        c == ToInt(w[3])
    IN  IF Len(w) # 3 THEN ValueError
        ELSE IF ~AllDigits(w[1])
        THEN \* Mon DD, YYYY
             IF MonthOf(w[1]) = 0 THEN ValueError
             ELSE IF b > 31 /\ Len(w[3]) <= 2
                  THEN MakeDate(YearOf(w[2]), MonthOf(w[1]), c)
                  ELSE MakeDate(YearOf(w[3]), MonthOf(w[1]), b)
        ELSE IF ~AllDigits(w[2])
        THEN \* DD Mon YYYY
             IF MonthOf(w[2]) = 0 THEN ValueError
             ELSE IF a > 31 /\ Len(w[3]) <= 2
                  THEN MakeDate(YearOf(w[1]), MonthOf(w[2]), c)
                  ELSE MakeDate(YearOf(w[3]), MonthOf(w[2]), a)
        ELSE IF a > 31 \/ Len(w[1]) > 2
        THEN \* 99-01-01
             IF dayfirst /\ c <= 12
             THEN MakeDate(YearOf(w[1]), c, b)
             ELSE MakeDate(YearOf(w[1]), b, c)
        ELSE IF a > 12 \/ (dayfirst /\ b <= 12)
        THEN \* 13-01-01
             MakeDate(YearOf(w[3]), b, a)
        ELSE \* 01-13-01
             MakeDate(YearOf(w[3]), a, b)

\* TransactionParser._parse_date: month first, then day first, then the clock
parse_date(date_str) ==
    IF dateutil_parse(date_str, FALSE) # ValueError
    THEN dateutil_parse(date_str, FALSE)
    ELSE IF dateutil_parse(date_str, TRUE) # ValueError
    THEN dateutil_parse(date_str, TRUE)
    ELSE Now

\* TransactionParser._parse_amount: 0.0 for what is no number
parse_amount(amount_str) ==
    LET kept == Keep(amount_str, DigitChars \cup {",", ".", "-"})
        value == Float(Remove(kept, ","))
    IN  IF value = NotAFloat THEN Decimal(0, 0) ELSE value

\* mutant: earliest first
SortDescending_ascending(rows) ==
    LET Key(row) == Ordinal(row.date)
    IN  SortBy(Key, rows)

\* rows sorted on date, latest first, rows of one date in their order
SortDescending(rows) ==
    LET Key(row) == 0 - Ordinal(row.date)
    IN  SortBy(Key, rows)

\* TransactionParser._clean_dataframe: dates and amounts parsed, sorted on
\* date descending, the first of the rows equal in date, merchant and amount
\* kept
clean_dataframe(rows) ==
    LET parsed == [k \in 1..Len(rows) |->
                      [rows[k] EXCEPT !.date = parse_date(@),
                                      !.amount = parse_amount(@)]]
        sorted == SortDescending(parsed)
        Same(x, y) == x.date = y.date /\ x.merchant = y.merchant /\ x.amount = y.amount
        IsFirst(k) == \A m \in 1..(k - 1) : ~Same(sorted[m], sorted[k])
    IN  SelectRows(IsFirst, sorted)

\* TransactionParser.parse_transactions on the lines of the text: a line is
\* stripped, an empty line skipped, a line that does not parse dropped
parse_transactions(lines) ==
    LET stripped == [k \in 1..Len(lines) |-> Strip(lines[k])]
        Parses(k) == Len(stripped[k]) > 0 /\ parse_line(stripped[k]) # None
        kept == SelectRows(Parses, stripped)
    IN  clean_dataframe([k \in 1..Len(kept) |-> parse_line(kept[k])])

\* TransactionCategorizer.categorize_transactions of a new categorizer: every
\* row gets its category
categorize_transactions(frame) ==
    [k \in 1..Len(frame) |->
        [date        |-> frame[k].date,
         merchant    |-> frame[k].merchant,
         amount      |-> frame[k].amount,
         description |-> frame[k].description,
         category    |-> TransactionCategorizer_categorize_transaction(
                             DefaultPatterns, frame[k].merchant,
                             frame[k].description)]]

----------------------------------------------------------------------------
(* expense_tracker/ocr.py: BankStatementOCR; cli.py: process_statement *)

\* (\d{1,2}[-/]\d{1,2}[-/]\d{2,4})
date_pattern ==
    Then(<<Rep(Digit, 1, 2), DateSeparator, Rep(Digit, 1, 2), DateSeparator,
           Rep(Digit, 2, 4)>>)

\* [-+]?\$?\s*\d+[,.]?\d*\.?\d*
amount_pattern ==
    Then(<<Opt(OneOf({"-", "+"})), Opt(Lit("$")), Star(Space), Plus(Digit),
           Opt(OneOf({",", "."})), Star(Digit), Opt(Lit(".")), Star(Digit)>>)

\* the strptime formats of _parse_date, in their order: the order of the
\* fields, the separator, the digits of the year
Formats ==
    << [order |-> "mdy", sep |-> "/", year |-> 4], [order |-> "mdy", sep |-> "-", year |-> 4],
       [order |-> "dmy", sep |-> "/", year |-> 4], [order |-> "dmy", sep |-> "-", year |-> 4],
       [order |-> "mdy", sep |-> "/", year |-> 2], [order |-> "mdy", sep |-> "-", year |-> 2],
       [order |-> "dmy", sep |-> "/", year |-> 2], [order |-> "dmy", sep |-> "-", year |-> 2],
       [order |-> "ymd", sep |-> "/", year |-> 4], [order |-> "ymd", sep |-> "-", year |-> 4] >>

\* %y: 00..68 are 2000..2068, 69..99 are 1969..1999
TwoDigitYear(value) == IF value < 69 THEN 2000 + value ELSE 1900 + value

\* datetime.strptime(text, format), or ValueError: the whole text is three
\* fields of digits around the separator of the format, month and day of one
\* or two digits, the year of exactly as many digits as the format has
strptime(text, format) ==
    LET f == Fields(text, {format.sep})
        y == IF format.order = "ymd" THEN f[1] ELSE f[3]
        m == IF format.order = "mdy" THEN f[1]
             ELSE IF format.order = "dmy" THEN f[2] ELSE f[2]
        d == IF format.order = "mdy" THEN f[2]
             ELSE IF format.order = "dmy" THEN f[1] ELSE f[3]
    IN  IF /\ Len(f) = 3
           /\ \A k \in 1..3 : Len(f[k]) > 0 /\ AllDigits(f[k])
           /\ Len(y) = format.year
           /\ Len(m) <= 2 /\ Len(d) <= 2
        THEN MakeDate(IF format.year = 2 THEN TwoDigitYear(ToInt(y)) ELSE ToInt(y),
                      ToInt(m), ToInt(d))
        ELSE ValueError

\* BankStatementOCR._parse_date: the first format that reads the text; None
\* when none does
RECURSIVE ParseWith(_, _)
ParseWith(date_str, formats) ==
    IF formats = <<>> THEN None
    ELSE IF strptime(date_str, Head(formats)) # ValueError
         THEN strptime(date_str, Head(formats))
         ELSE ParseWith(date_str, Tail(formats))

\* mutant: the day-first formats are tried before the month-first ones
ocr_parse_date_dayfirst(date_str) ==
    ParseWith(date_str,
              <<Formats[3], Formats[4], Formats[1], Formats[2], Formats[7],
                Formats[8], Formats[5], Formats[6], Formats[9], Formats[10]>>)

ocr_parse_date(date_str) == ParseWith(date_str, Formats)

\* description.replace(amt, '').strip() for every amount match in turn
RECURSIVE RemoveAll(_, _)
RemoveAll(description, amounts) ==
    IF amounts = <<>> THEN description
    ELSE RemoveAll(Strip(Remove(description, Head(amounts))), Tail(amounts))

\* the body of the loop of BankStatementOCR.parse_transactions for one
\* stripped line: the transaction of the line, or None
ocr_parse_line(line) ==
    LET date_match     == Search(date_pattern, line)
        amount_matches == FindAll(amount_pattern, line)
        amount_str     == Strip(Remove(Remove(amount_matches[Len(amount_matches)],
                                              "$"), ","))
        description    == RemoveAll(Strip(SubSeq(line, date_match.end, Len(line))),
                                    amount_matches)
    IN  IF date_match = NoMatch \/ amount_matches = <<>> THEN None
        ELSE IF Float(amount_str) = NotAFloat THEN None
        ELSE IF Len(description) = 0 THEN None
        ELSE [date        |-> ocr_parse_date(Group(line, date_match)),
              description |-> description,
              amount      |-> Float(amount_str)]

\* BankStatementOCR.parse_transactions on the lines of the text
ocr_parse_transactions(lines) ==
    LET stripped == [k \in 1..Len(lines) |-> Strip(lines[k])]
        Parses(k) == Len(stripped[k]) > 0 /\ ocr_parse_line(stripped[k]) # None
        kept == SelectRows(Parses, stripped)
    IN  [k \in 1..Len(kept) |-> ocr_parse_line(kept[k])]

\* mutant: the working list is started anew with every statement
process_statement_replacing(txs, raw_transactions) ==
    LET HasDate(k) == raw_transactions[k].date # None
        dated == SelectRows(HasDate, raw_transactions)
    IN  [k \in 1..Len(dated) |->
            Transaction(dated[k].date, dated[k].description,
                        dated[k].amount, "Uncategorized", FALSE)]

\* ExpenseTrackerCLI.process_statement: the raw transactions with a date
\* become Transaction objects at the end of the working list
process_statement(txs, raw_transactions) ==
    LET HasDate(k) == raw_transactions[k].date # None
        dated == SelectRows(HasDate, raw_transactions)
    IN  txs \o [k \in 1..Len(dated) |->
                   Transaction(dated[k].date, dated[k].description,
                               dated[k].amount, "Uncategorized", FALSE)]

----------------------------------------------------------------------------
(* Extraction: the lines of a statement, parsed by either pipeline *)

\* the line of the end-to-end example
ExampleLine == "01/15/2024  Amazon.com   $45.99"

\* lines of a statement text
LinePool ==
    { ExampleLine,
      "Jan 15, 2024 POS Starbucks Inc $5.75",
      "Payment received",
      "   ",
      "2024-01-16 Uber 1,234.56 USD",
      "13/01/2024 Shell $40",
      "02/30/2024 Walmart $10.00",
      "Amazon.com $45.99 on 01/15/2024",
      "01/17/2024 Netflix",
      "01/15/2024 Uber $20.00",
      "03/04/2024 Lyft $12.00" }

InitParse ==
    /\ input = <<>>
    /\ df = None
    /\ transactions = <<>>
    /\ returned = None
    /\ op = "init"
    /\ baseline_stats = <<>>
    /\ predictions = {}
    /\ file = NoFile
    /\ expense_categories = None
    /\ categories = None
    /\ category_patterns = None
    /\ class_keywords = None
    /\ shared = {}

\* the extracted text of the statement gets one more line
ExtractLine(line) ==
    /\ op \in {"init", "extract"}
    /\ Len(input) < MaxLines
    /\ input' = Append(input, line)
    /\ returned' = None
    /\ op' = "extract"
    /\ UNCHANGED <<df, NotDataFrame>>

\* money.py: the text is parsed into the frame
ParseTransactions ==
    /\ op = "extract"
    /\ df' = parse_transactions(input)
    /\ returned' = df'
    /\ op' = "TransactionParser.parse_transactions"
    /\ UNCHANGED <<input, NotDataFrame>>

\* money.py: a frame with rows is categorized
CategorizeTransactions ==
    /\ op = "TransactionParser.parse_transactions"
    /\ df # <<>>
    /\ df' = categorize_transactions(df)
    /\ returned' = df'
    /\ op' = "TransactionCategorizer.categorize_transactions"
    /\ UNCHANGED <<input, NotDataFrame>>

\* BankStatementOCR.parse_transactions on the text
OcrParseTransactions ==
    /\ op = "extract"
    /\ returned' = ocr_parse_transactions(input)
    /\ op' = "BankStatementOCR.parse_transactions"
    /\ UNCHANGED <<input, df, NotDataFrame>>

\* ExpenseTrackerCLI.process_statement on the text: nothing is added when no
\* transaction is found
ProcessStatement ==
    /\ op = "extract"
    /\ transactions' = process_statement(transactions, ocr_parse_transactions(input))
    /\ returned' = None
    /\ op' = "process_statement"
    /\ UNCHANGED <<input, df, baseline_stats, predictions, file,
                   expense_categories, categories, category_patterns,
                   class_keywords, shared>>

NextParse ==
    \/ \E line \in LinePool : ExtractLine(line)
    \/ ParseTransactions
    \/ CategorizeTransactions
    \/ OcrParseTransactions
    \/ ProcessStatement

SpecParse == InitParse /\ [][NextParse]_vars

\* the amount 45.99
ExampleAmount == Decimal(4599, 2)

\* C9: the line "01/15/2024  Amazon.com   $45.99" gives exactly one
\* transaction, dated 2024-01-15, with payee "Amazon.com" and amount 45.99,
\* from the parser of either pipeline, and categorization with the default
\* keywords gives it the category "Shopping".
C9_EndToEndExtraction ==
    input = <<ExampleLine>> =>
        /\ op \in {"TransactionParser.parse_transactions",
                   "TransactionCategorizer.categorize_transactions"}
              => /\ Len(df) = 1
                 /\ df[1].date = Date(2024, 1, 15)
                 /\ df[1].merchant = "Amazon.com"
                 /\ df[1].amount = ExampleAmount
        /\ op = "TransactionCategorizer.categorize_transactions"
              => df[1].category = "Shopping"
        /\ op = "BankStatementOCR.parse_transactions"
              => /\ Len(returned) = 1
                 /\ returned[1].date = Date(2024, 1, 15)
                 /\ returned[1].description = "Amazon.com"
                 /\ returned[1].amount = ExampleAmount

----------------------------------------------------------------------------
(* expense_tracker/cli.py: one ExpenseTrackerCLI with its categorizer, its *)
(* detector and its working list                                           *)

\* the longest working list
MaxBatch == 2

\* the most transactions the categories have counted
MaxCounted == 2

\* raw transactions as BankStatementOCR.process_statement returns them, in
\* the order of their lines; the date of the second did not parse
Raws ==
    << [date |-> Date(2024, 1, 1), description |-> "Kroger", amount |-> 40],
       [date |-> None,             description |-> "Uber",   amount |-> 5],
       [date |-> Date(2024, 1, 2), description |-> "Zelle",  amount |-> -60] >>

\* the raw transactions of a statement: some lines that follow each other
Statements ==
    { SubSeq(Raws, a, b) : a \in 1..Len(Raws), b \in 1..Len(Raws) } \ { <<>> }

\* ExpenseTrackerCLI()
InitCli ==
    /\ transactions = <<>>
    /\ expense_categories = initialize_categories
    /\ baseline_stats = <<>>
    /\ predictions = {}
    /\ file = NoFile
    /\ categories = None
    /\ category_patterns = None
    /\ class_keywords = None
    /\ shared = {}
    /\ input = None
    /\ df = None
    /\ returned = None
    /\ op = "init"

\* the transactions the categories have counted
TotalCount(cats) == SumSeq([c \in 1..Len(cats) |-> cats[c].transaction_count])

\* process_statement on a statement with these raw transactions
CliProcessStatement(raw_transactions) ==
    /\ transactions' = process_statement(transactions, raw_transactions)
    /\ Len(transactions') <= MaxBatch
    /\ returned' = None
    /\ op' = "process_statement"
    /\ UNCHANGED <<baseline_stats, predictions, file, expense_categories,
                   categories, category_patterns,
                   class_keywords, shared, input, df>>

\* categorize: nothing on an empty list, otherwise categorize_transactions
\* and the summary that is printed
Categorize ==
    LET c == ExpenseCategorizer_categorize_transactions(expense_categories,
                                                        transactions)
    IN  /\ TotalCount(c.categories) <= MaxCounted
        /\ IF transactions = <<>>
           THEN /\ returned' = None
                /\ UNCHANGED <<transactions, expense_categories>>
           ELSE /\ transactions' = c.transactions
                /\ expense_categories' = c.categories
                /\ returned' = get_category_summary(c.categories)
        /\ op' = "categorize"
        /\ UNCHANGED <<baseline_stats, predictions, file, categories,
                       category_patterns, class_keywords, shared, input, df>>

\* run() on the command analyze without --load: categorize(), then
\* detect_anomalies(), each of which does nothing on an empty list
RunAnalyze ==
    LET c == ExpenseCategorizer_categorize_transactions(expense_categories,
                                                        transactions)
        d == detect_all_anomalies(baseline_stats, c.transactions, predictions)
    IN  /\ TotalCount(c.categories) <= MaxCounted
        /\ IF transactions = <<>>
           THEN /\ returned' = None
                /\ UNCHANGED <<transactions, expense_categories, baseline_stats>>
           ELSE /\ transactions' = d.transactions
                /\ expense_categories' = c.categories
                /\ baseline_stats' = d.baseline_stats
                /\ returned' = [category_summary |-> get_category_summary(c.categories),
                                results          |-> d.results,
                                summary          |-> get_anomaly_summary(d.transactions)]
        /\ op' = "analyze"
        /\ UNCHANGED <<predictions, file, categories, category_patterns,
                       class_keywords, shared, input, df>>

NextCli ==
    \/ \E raw_transactions \in Statements : CliProcessStatement(raw_transactions)
    \/ Categorize
    \/ CliDetectAnomalies
    \/ RunAnalyze

SpecCli == InitCli /\ [][NextCli]_vars

\* the same instance with the file of its save_transactions and
\* load_transactions
NextCliIO ==
    \/ \E raw_transactions \in Statements : CliProcessStatement(raw_transactions)
    \/ Categorize
    \/ CliDetectAnomalies
    \/ SaveTransactions
    \/ LoadTransactions

SpecCliIO == InitCli /\ [][NextCliIO]_vars

\* the names of the configured categories
CategoryNames(cats) == { cats[c].name : c \in 1..Len(cats) }

\* C12: after categorize_transactions every transaction of the list carries
\* a category that is the name of a configured category or "Other", and none
\* is left with the creation default "Uncategorized".
C12_EveryTransactionLabelled ==
    op \in {"categorize", "analyze"} =>
        \A i \in 1..Len(transactions) :
            /\ transactions[i].category \in
                   CategoryNames(expense_categories) \union {"Other"}
            /\ transactions[i].category # "Uncategorized"

\* a list of two was categorized: one description had a keyword of a
\* configured category, the other had none
C12_Witness ==
    /\ op = "categorize"
    /\ Len(transactions) = 2
    /\ transactions[1].category = "Groceries"
    /\ transactions[2].category = "Other"

\* C13: the default keyword lists of the class are never changed by
\* add_custom_category and update_category_keywords calls on an instance,
\* and a categorizer constructed afterwards without custom categories
\* categorizes every payee as one constructed before those calls.
C13_DefaultsNeverMutated ==
    categories # None =>
        /\ class_keywords = CATEGORY_KEYWORDS
        /\ op = "TransactionCategorizer" =>
               \A m \in Descriptions, d \in SecondArguments :
                   TransactionCategorizer_categorize_transaction(category_patterns, m, d)
                     = TransactionCategorizer_categorize_transaction(DefaultPatterns, m, d)

\* every transaction of the working list is at its place in the list of the
\* next state, with its date, description and amount
Kept ==
    \A i \in 1..Len(transactions) :
        /\ i <= Len(transactions')
        /\ transactions'[i].date = transactions[i].date
        /\ transactions'[i].description = transactions[i].description
        /\ transactions'[i].amount = transactions[i].amount

\* C14 as stated: no operation of the CLI (process_statement, categorize,
\* detect_anomalies, save_transactions, load_transactions) removes a
\* transaction from the working list.
C14_NeverDeleted == [][Kept]_vars

\* C14 amended: process_statement, categorize, detect_anomalies,
\* save_transactions and a load_transactions that raises remove no
\* transaction from the working list; a load_transactions that succeeds
\* replaces the list.
C14_DeletedOnlyByLoad == [][op' # "load_transactions" => Kept]_vars

\* a transaction that was categorized is still first in the list after a
\* later statement was processed
C14_Witness ==
    /\ op = "process_statement"
    /\ Len(transactions) = 2
    /\ transactions[1].category = "Groceries"
    /\ transactions[2].category = "Uncategorized"

\* C15: the analyze command run a second time on the same working list,
\* with the same categorizer and detector, leaves the categories and the
\* is_anomaly flags as they were and gives the same lists of the three
\* detectors and the same category summary as the first run.
C15_PipelineIdempotent ==
    [][ (op = "analyze" /\ op' = "analyze")
            => (transactions' = transactions /\ returned' = returned) ]_vars

\* the transactions of a list that carry a label
Labelled(txs, label) == { i \in 1..Len(txs) : txs[i].category = label }

\* a summary has the entry of a label with the count, the total of the
\* absolute amounts and their average (to the hundredth) of the transactions
\* of the list that carry the label
Summarizes(summary, txs, label) ==
    LET own == Labelled(txs, label)
        total == SumSeq([i \in 1..Len(txs) |->
                            IF i \in own THEN Abs(txs[i].amount) ELSE 0])
    IN  \E k \in 1..Len(summary) :
            /\ summary[k].name = label
            /\ summary[k].transaction_count = Cardinality(own)
            /\ summary[k].total_amount = total
            /\ summary[k].average_amount = RoundHalfEven(total * 100, Cardinality(own))

\* C16: after categorize_transactions on a fresh ExpenseCategorizer over a
\* list, the summary has, for every label assigned to a transaction of the
\* list ("Other" included), the count, the total of the absolute amounts and
\* the average of the transactions with that label, and the counts add up to
\* the length of the list.
C16_SummaryCoversEveryLabel ==
    [][ (/\ expense_categories = initialize_categories
         /\ transactions # <<>>
         /\ op' = "categorize")
        => /\ \A i \in 1..Len(transactions') :
                  Summarizes(returned', transactions', transactions'[i].category)
           /\ SumSeq([k \in 1..Len(returned') |-> returned'[k].transaction_count])
                  = Len(transactions') ]_vars

\* a line holds a date that a date pattern finds, and a number outside it
HoldsDateAndAmount(pattern, line) ==
    LET m == Search(pattern, line)
        rest == SubSeq(line, 1, m.start - 1) \o SubSeq(line, m.end, Len(line))
    IN  /\ m # NoMatch
        /\ \E k \in 1..Len(rest) : IsDigit(Char(rest, k))

\* the lines of the text that hold a date and an amount
Complete(pattern, lines) ==
    { k \in 1..Len(lines) : HoldsDateAndAmount(pattern, lines[k]) }

\* C17: a line contributes a transaction only if it holds both a date and an
\* amount: from either parser there are no more transactions than lines
\* with a date and a number outside the date, so a line without a date and a
\* line with a date and a payee but no amount give none.
C17_DateAndAmountRequired ==
    /\ op = "TransactionParser.parse_transactions"
          => Len(df) <= Cardinality(Complete(date_regex, input))
    /\ op = "BankStatementOCR.parse_transactions"
          => Len(returned) <= Cardinality(Complete(date_pattern, input))

\* the rows of the lines that parse, in the order of the lines, with their
\* dates and amounts parsed
ParsedRows(lines) ==
    LET stripped == [k \in 1..Len(lines) |-> Strip(lines[k])]
        kept == SelectSeq(stripped,
                          LAMBDA line : Len(line) > 0 /\ parse_line(line) # None)
    IN  [k \in 1..Len(kept) |->
            [parse_line(kept[k]) EXCEPT !.date = parse_date(@),
                                        !.amount = parse_amount(@)]]

\* two rows have the same date, merchant and amount
SameTriple(x, y) ==
    x.date = y.date /\ x.merchant = y.merchant /\ x.amount = y.amount

\* C18: the result of TransactionParser.parse_transactions is ordered by
\* date, latest first, no two of its rows have the same date, merchant and
\* amount, every row of it is the first of the parsed rows with its triple
\* (rows of one date stay in the order of their lines), and every triple of
\* a parsed row is the triple of a row of the result.
C18_SortedAndDeduplicated ==
    op = "TransactionParser.parse_transactions" =>
        LET rows == ParsedRows(input)
        IN  /\ \A k \in 1..(Len(df) - 1) :
                   Ordinal(df[k].date) >= Ordinal(df[k + 1].date)
            /\ \A k, m \in 1..Len(df) : k # m => ~SameTriple(df[k], df[m])
            /\ \A k \in 1..Len(df) :
                   \E n \in 1..Len(rows) :
                       /\ rows[n] = df[k]
                       /\ \A m \in 1..(n - 1) : ~SameTriple(rows[m], rows[n])
            /\ \A n \in 1..Len(rows) :
                   \E k \in 1..Len(df) : SameTriple(df[k], rows[n])

\* two different lines gave rows with the same triple, and the row of the
\* first line is the one row of the result
C18_Witness ==
    /\ op = "TransactionParser.parse_transactions"
    /\ Len(input) = 2
    /\ input[1] # input[2]
    /\ Len(ParsedRows(input)) = 2
    /\ Len(df) = 1
    /\ df[1].description = Strip(input[1])

\* C19: in the statistical detector a transaction of a category whose
\* baseline has Q1 = Q3 is not flagged by the IQR rule, whatever its amount:
\* when it is in the returned list, the z-score test holds for it.
C19_DegenerateIqrFlagsNothing ==
    op = "detect_statistical_anomalies" =>
        \A k \in 1..Len(returned) :
            LET t == transactions[returned[k]]
                st == baseline_stats[t.category]
            IN  st.q1_4 = st.q3_4 => ZScoreTest(Abs(t.amount), st)

\* the transactions with the payee text of transaction i
PayeeGroup(txs, i) == { j \in 1..Len(txs) : txs[j].description = txs[i].description }

\* i comes before j when a group is ordered by date, transactions of one
\* date staying in list order
Earlier(txs, i, j) ==
    \/ Ordinal(txs[i].date) < Ordinal(txs[j].date)
    \/ Ordinal(txs[i].date) = Ordinal(txs[j].date) /\ i < j

\* i and j follow each other in the date order of their group, and their
\* gap in days is below a third of the mean gap of the group (the days from
\* its first to its last date over the number of gaps) and below 2
ClosePair(txs, i, j) ==
    LET group == PayeeGroup(txs, i)
        days  == { Ordinal(txs[k].date) : k \in group }
        span  == (CHOOSE d \in days : \A e \in days : e <= d)
                   - (CHOOSE d \in days : \A e \in days : d <= e)
        gap   == DaysBetween(txs[i].date, txs[j].date)
    IN  /\ j \in group
        /\ Earlier(txs, i, j)
        /\ ~\E k \in group : Earlier(txs, i, k) /\ Earlier(txs, k, j)
        /\ 3 * gap * (Cardinality(group) - 1) < span
        /\ gap < 2

InClosePair(txs, i) ==
    \E j \in 1..Len(txs) : ClosePair(txs, i, j) \/ ClosePair(txs, j, i)

\* C20: detect_frequency_anomalies groups the transactions by exact payee
\* text and orders each group by date; afterwards both transactions of every
\* consecutive pair whose gap in days is below a third of the mean gap of
\* the group and below 2 have is_anomaly true, and every other transaction
\* has the flag it had.
C20_FrequencyPairsFlagged ==
    [][ op' = "detect_frequency_anomalies" =>
            /\ Len(transactions') = Len(transactions)
            /\ \A i \in 1..Len(transactions) :
                   IF InClosePair(transactions, i)
                   THEN transactions'[i].is_anomaly
                   ELSE transactions'[i].is_anomaly = transactions[i].is_anomaly ]_vars

\* a payee with three transactions, the first two a day apart and flagged by
\* the frequency detector, the third a week later and not flagged
C20_Witness ==
    /\ op = "detect_frequency_anomalies"
    /\ Len(returned) = 2
    /\ \E i, j, k \in 1..Len(transactions) :
           /\ ClosePair(transactions, i, j)
           /\ k \in PayeeGroup(transactions, i)
           /\ transactions[i].is_anomaly /\ transactions[j].is_anomaly
           /\ ~transactions[k].is_anomaly

----------------------------------------------------------------------------
(* The memoized baseline, checked under Spec *)

\* the operations that run the statistical detector
IsStatistical == op = "detect_statistical_anomalies" \/ IsDetectAll

\* the list the statistical detector returned
StatisticalList == IF IsDetectAll THEN Results.statistical ELSE returned

\* the categories that occur in txs
CategoriesOf(txs) == {txs[i].category : i \in 1..Len(txs)}

\* stats holds, for every category of txs, the statistics of that category's
\* amounts in txs
ComputedFrom(stats, txs) ==
    \A c \in CategoriesOf(txs) :
        /\ c \in DOMAIN stats
        /\ stats[c] = CategoryStats(CategoryAmounts(txs, c))

\* C21: the baseline is memoized per detector.  A statistical detection that
\* finds the baseline empty computes it from the list it is given; one that
\* finds it non-empty leaves it as it is, also when the list has changed
\* since; no operation but calculate_baseline_stats and the construction of
\* a new detector changes it otherwise; and a transaction whose category has
\* no baseline entry is not in the statistical list.
C21_BaselineMemoized ==
    [][ /\ (IsStatistical' /\ DOMAIN baseline_stats = {}) =>
               /\ DOMAIN baseline_stats' = CategoriesOf(transactions)
               /\ ComputedFrom(baseline_stats', transactions)
        /\ (IsStatistical' /\ DOMAIN baseline_stats # {}) =>
               baseline_stats' = baseline_stats
        /\ op' \notin {"calculate_baseline_stats", "new_detector"} /\ ~IsStatistical' =>
               baseline_stats' = baseline_stats
        /\ IsStatistical' =>
               \A k \in 1..Len(StatisticalList') :
                   transactions'[StatisticalList'[k]].category
                       \in DOMAIN baseline_stats'
      ]_vars

\* a statistical detection has just run on a list that differs from the one
\* the baseline was computed from: one category is absent from the
\* baseline, and another has more transactions than its entry counted
C21_Witness ==
    /\ op = "detect_statistical_anomalies"
    /\ \E i \in 1..Len(transactions) :
          transactions[i].category \notin DOMAIN baseline_stats
    /\ \E c \in DOMAIN baseline_stats :
          baseline_stats[c].n < Len(CategoryAmounts(transactions, c))

----------------------------------------------------------------------------
(* analyzer.py: the operations of SpendingAnalyzer on a frame that has or *)
(* lacks the date and merchant columns                                     *)

\* a call that returned value
Returns(value) == [ok |-> TRUE, value |-> value]

\* a call that raised ValueError(message)
Raises(message) == [ok |-> FALSE, error |-> "ValueError", message |-> message]

\* a DataFrame with the given columns: every row keeps those fields only
Frame(columns, rows) ==
    [columns |-> columns,
     rows    |-> [k \in 1..Len(rows) |-> [c \in columns |-> rows[k][c]]]]

\* df['amount'] as a list
Amounts(frame) == [k \in 1..Len(frame.rows) |-> frame.rows[k].amount]

\* the largest and the smallest element of a non-empty set of integers
Max(S) == CHOOSE x \in S : \A y \in S : y <= x

Min(S) == CHOOSE x \in S : \A y \in S : x <= y

\* get_basic_stats on a frame with at least one row: the amount statistics,
\* and the two date statistics when the frame has a date column.  The mean
\* is sum/n, the median a multiple of 1/4, std_deviation is kept as its
\* square, the sample variance (n*sumsq - sum^2) / (n*(n-1)), missing for
\* one row.
get_basic_stats(frame) ==
    LET amounts == Amounts(frame)
        n       == Len(amounts)
        sum     == SumSeq(amounts)
        sumsq   == SumSeq([k \in 1..n |-> amounts[k] * amounts[k]])
        sorted  == SortSeq(amounts, LAMBDA a, b : a < b)
        stats   == [total_transactions   |-> n,
                    total_spent          |-> sum,
                    average_transaction  |-> Ratio(sum, n),
                    median_transaction   |-> Ratio(Percentile4(sorted, 2), 4),
                    largest_transaction  |-> sorted[n],
                    smallest_transaction |-> sorted[1],
                    std_deviation        |->
                        IF n < 2 THEN NaN
                        ELSE Ratio(n * sumsq - sum * sum, n * (n - 1))]
        days    == { Ordinal(frame.rows[k].date) : k \in 1..n }
        date_range == Max(days) - Min(days)
    IN  IF "date" \in frame.columns
        THEN Returns(stats @@
                 [date_range_days      |-> date_range,
                  transactions_per_day |->
                      Ratio(n, IF date_range > 1 THEN date_range ELSE 1)])
        ELSE Returns(stats)

\* the aggregate of one group: sum, count and mean of its amounts, the mean
\* rounded to hundredths and missing for an empty group
Aggregate(amounts) ==
    [total_spent       |-> SumSeq(amounts),
     transaction_count |-> Len(amounts),
     average_amount    |->
         IF Len(amounts) = 0 THEN NaN
         ELSE Ratio(RoundHalfEven(SumSeq(amounts) * 100, Len(amounts)), 100)]

\* get_spending_by_period with the default period 'M': one row per calendar
\* month from the month of the first date to the month of the last, labelled
\* with the month's last day
get_spending_by_period(frame) ==
    IF "date" \notin frame.columns
    THEN Raises("DataFrame must have 'date' column")
    ELSE LET MonthIndex(d) == d.year * 12 + d.month - 1
             months == { MonthIndex(frame.rows[k].date) : k \in 1..Len(frame.rows) }
             first  == Min(months)
             InMonth(m) ==
                 SelectSeq(frame.rows, LAMBDA r : MonthIndex(r.date) = m)
         IN  Returns([k \in 1..(Max(months) - first + 1) |->
                 LET m == first + k - 1
                     year == m \div 12
                     month == (m % 12) + 1
                 IN  [date |-> Date(year, month, DaysInMonth(year, month))]
                     @@ Aggregate(Amounts([rows |-> InMonth(m)]))])

\* the merchants of the frames, in the order groupby sorts them
Merchants == <<"Amazon", "Uber">>

\* get_top_merchants: one row per merchant of the frame, by falling total,
\* merchants of equal total in groupby order; the first n rows
get_top_merchants(frame, n) ==
    IF "merchant" \notin frame.columns
    THEN Raises("DataFrame must have 'merchant' column")
    ELSE LET Of(name) == SelectSeq(frame.rows, LAMBDA r : r.merchant = name)
             present == SelectSeq(Merchants, LAMBDA name : Of(name) # <<>>)
             groups  == [k \in 1..Len(present) |->
                            [merchant |-> present[k]]
                            @@ Aggregate(Amounts([rows |-> Of(present[k])]))]
             ranked  == SortBy(LAMBDA g : -g.total_spent, groups)
         IN  Returns(SubSeq(ranked, 1, IF Len(ranked) < n THEN Len(ranked) ELSE n))

\* compare_periods, the four bounds given as dates: totals, counts and means
\* of the rows dated within each period, their difference and the change in
\* percent of the first total, 0 when that total is not positive
compare_periods(frame, period1_start, period1_end, period2_start, period2_end) ==
    IF "date" \notin frame.columns
    THEN Raises("DataFrame must have 'date' column")
    ELSE LET Within(start, end) ==
                 Amounts([rows |-> SelectSeq(frame.rows, LAMBDA r :
                     /\ Ordinal(r.date) >= Ordinal(start)
                     /\ Ordinal(r.date) <= Ordinal(end))])
             period1 == Within(period1_start, period1_end)
             period2 == Within(period2_start, period2_end)
             total_difference == SumSeq(period2) - SumSeq(period1)
         IN  Returns(
                 [period1_total     |-> SumSeq(period1),
                  period1_count     |-> Len(period1),
                  period1_average   |-> Ratio(SumSeq(period1), Len(period1)),
                  period2_total     |-> SumSeq(period2),
                  period2_count     |-> Len(period2),
                  period2_average   |-> Ratio(SumSeq(period2), Len(period2)),
                  total_difference  |-> total_difference,
                  percentage_change |->
                      IF SumSeq(period1) > 0
                      THEN Ratio(total_difference * 100, SumSeq(period1))
                      ELSE Ratio(0, 1)])

\* the rows as find_duplicate_transactions reads them: row.get('merchant', '')
WithMerchant(frame) ==
    [k \in 1..Len(frame.rows) |->
        Row(frame.rows[k].date,
            IF "merchant" \in frame.columns THEN frame.rows[k].merchant ELSE "",
            frame.rows[k].amount)]

\* find_duplicate_transactions behind its column check
checked_find_duplicate_transactions(frame, time_window) ==
    IF "date" \notin frame.columns
    THEN Raises("DataFrame must have 'date' column")
    ELSE Returns(find_duplicate_transactions(WithMerchant(frame), time_window))

\* get_spending_trends behind its column check
checked_get_spending_trends(frame, window) ==
    IF "date" \notin frame.columns
    THEN Raises("DataFrame must have 'date' column")
    ELSE Returns(get_spending_trends(frame.rows, window))

\* the sets of columns a frame comes with; amount is always among them
ColumnSets ==
    { {"amount"} \cup optional : optional \in SUBSET {"date", "merchant"} }

\* the periods compare_periods is asked about
Periods ==
    { [start |-> Date(2024, 1, 1), end |-> Date(2024, 1, 31)],
      [start |-> Date(2024, 2, 1), end |-> Date(2024, 2, 29)] }

\* values of the n argument of get_top_merchants; 10 is the default
TopCounts == {1, 10}

\* SpendingAnalyzer(df) on a frame of one row
InitAn ==
    /\ \E columns \in ColumnSets, r \in RowPool : df = Frame(columns, <<r>>)
    /\ input = None
    /\ returned = None
    /\ op = "init"
    /\ transactions = <<>>
    /\ baseline_stats = <<>>
    /\ predictions = {}
    /\ file = NoFile
    /\ expense_categories = None
    /\ categories = None
    /\ category_patterns = None
    /\ class_keywords = None
    /\ shared = {}

\* the analyzer is constructed on a frame with one more row
AnAddRow(r) ==
    /\ Len(df.rows) < MaxRows
    /\ df' = Frame(df.columns, Append(df.rows, r))
    /\ input' = None
    /\ returned' = None
    /\ op' = "add_row"
    /\ UNCHANGED NotDataFrame

GetBasicStats ==
    /\ input' = None
    /\ returned' = get_basic_stats(df)
    /\ op' = "get_basic_stats"
    /\ UNCHANGED <<df, NotDataFrame>>

GetSpendingByPeriod ==
    /\ input' = [period |-> "M"]
    /\ returned' = get_spending_by_period(df)
    /\ op' = "get_spending_by_period"
    /\ UNCHANGED <<df, NotDataFrame>>

AnFindDuplicateTransactions(time_window) ==
    /\ input' = [time_window |-> time_window]
    /\ returned' = checked_find_duplicate_transactions(df, time_window)
    /\ op' = "find_duplicate_transactions"
    /\ UNCHANGED <<df, NotDataFrame>>

GetTopMerchants(n) ==
    /\ input' = [n |-> n]
    /\ returned' = get_top_merchants(df, n)
    /\ op' = "get_top_merchants"
    /\ UNCHANGED <<df, NotDataFrame>>

AnGetSpendingTrends(window) ==
    /\ input' = [window |-> window]
    /\ returned' = checked_get_spending_trends(df, window)
    /\ op' = "get_spending_trends"
    /\ UNCHANGED <<df, NotDataFrame>>

ComparePeriods(period1, period2) ==
    /\ input' = [period1 |-> period1, period2 |-> period2]
    /\ returned' = compare_periods(df, period1.start, period1.end,
                                   period2.start, period2.end)
    /\ op' = "compare_periods"
    /\ UNCHANGED <<df, NotDataFrame>>

NextAn ==
    \/ \E r \in RowPool : AnAddRow(r)
    \/ GetBasicStats
    \/ GetSpendingByPeriod
    \/ \E w \in TimeWindows : AnFindDuplicateTransactions(w)
    \/ \E n \in TopCounts : GetTopMerchants(n)
    \/ \E w \in Windows : AnGetSpendingTrends(w)
    \/ \E p1, p2 \in Periods : ComparePeriods(p1, p2)

SpecAn == InitAn /\ [][NextAn]_vars

\* the column an operation of the analyzer cannot work without
Needs(operation) ==
    IF operation = "get_top_merchants" THEN "merchant" ELSE "date"

\* C22: an operation of the analyzer that needs a column the frame lacks
\* (date for the date statistics of get_basic_stats, get_spending_by_period,
\* find_duplicate_transactions, get_spending_trends and compare_periods,
\* merchant for get_top_merchants) raises an error with a message and
\* returns nothing.
C22_MissingColumnRaises ==
    (op \notin {"init", "add_row"} /\ Needs(op) \notin df.columns) =>
        /\ ~returned.ok
        /\ returned.message # ""

----------------------------------------------------------------------------
(* The policy on dates that cannot be read, checked under SpecParse *)

\* a datetime: a calendar date, neither None nor a text
IsDate(d) ==
    /\ DOMAIN d = {"year", "month", "day"}
    /\ ValidDate(d.year, d.month, d.day)

\* text is three numbers around one kind of separator, the first two of one
\* or two digits, the third a year of two or four digits
IsNumericDate(text) ==
    LET f == Fields(text, {"/", "-"})
    IN  /\ Len(f) = 3
        /\ \A k \in 1..3 : Len(f[k]) > 0 /\ AllDigits(f[k])
        /\ Len(f[1]) <= 2 /\ Len(f[2]) <= 2 /\ Len(f[3]) \in {2, 4}
        /\ Positions(text, {"/"}) = <<>> \/ Positions(text, {"-"}) = <<>>

\* the calendar date a numeric date text stands for: month first when that
\* is a date, else day first when that is a date, else None
Reading(text) ==
    LET f == Fields(text, {"/", "-"})
        y == IF Len(f[3]) = 4 THEN ToInt(f[3])
             ELSE IF ToInt(f[3]) <= 68 THEN 2000 + ToInt(f[3])
             ELSE 1900 + ToInt(f[3])
        a == ToInt(f[1])
        b == ToInt(f[2])
    IN  IF ValidDate(y, a, b) THEN Date(y, a, b)
        ELSE IF ValidDate(y, b, a) THEN Date(y, b, a)
        ELSE None

\* the text the OCR date pattern finds in a line
OcrDateText(line) == Group(line, Search(date_pattern, line))

\* the stripped lines of the text that the OCR parser makes a transaction of
OcrLines ==
    SelectSeq([k \in 1..Len(input) |-> Strip(input[k])],
              LAMBDA l : Len(l) > 0 /\ ocr_parse_line(l) # None)

\* those of them whose date text stands for a calendar date
OcrDatedLines ==
    SelectSeq(OcrLines,
              LAMBDA l : /\ IsNumericDate(OcrDateText(l))
                         /\ Reading(OcrDateText(l)) # None)

\* C23: a line whose date text is no calendar date in a supported format
\* gives no transaction in the working list of the CLI, and a row dated with
\* the clock in the frame of TransactionParser (one row for the lines that
\* are equal in date, merchant and amount); every transaction and every row
\* holds a datetime, never a text; and a numeric date text is read month
\* first, day first only when month first is no date.
C23_DateFailurePolicy ==
    /\ op = "process_statement" =>
          /\ Len(transactions) = Len(OcrDatedLines)
          /\ \A k \in 1..Len(transactions) :
                /\ IsDate(transactions[k].date)
                /\ transactions[k].date = Reading(OcrDateText(OcrDatedLines[k]))
                /\ transactions[k].description =
                       ocr_parse_line(OcrDatedLines[k]).description
    /\ op = "TransactionParser.parse_transactions" =>
          /\ \A k \in 1..Len(df) : IsDate(df[k].date)
          /\ \A k \in 1..Len(input) :
                LET l == Strip(input[k])
                IN  ( /\ Len(l) > 0
                      /\ parse_line(l) # None
                      /\ IsNumericDate(parse_line(l).date)
                      /\ Len(parse_line(l).date) >= 8 )
                    => \E m \in 1..Len(df) :
                          /\ df[m].merchant = parse_line(l).merchant
                          /\ df[m].amount = parse_amount(parse_line(l).amount)
                          /\ df[m].date =
                                 IF Reading(parse_line(l).date) = None THEN Now
                                 ELSE Reading(parse_line(l).date)

\* the CLI has processed a text of one line dated 02/30/2024 and one dated
\* 03/04/2024: the working list holds the second alone, dated March 4
C23_Witness ==
    /\ op = "process_statement"
    /\ input = <<"02/30/2024 Walmart $10.00", "03/04/2024 Lyft $12.00">>
    /\ Len(transactions) = 1
    /\ transactions[1].date = Date(2024, 3, 4)

----------------------------------------------------------------------------
(* The rows of find_duplicate_transactions, checked under SpecDup *)

\* the ordered pairs of distinct rows of the frame with one amount, the
\* second dated from the date of the first to time_window days later
QualifyingPairs ==
    { p \in (1..Len(df)) \X (1..Len(df)) :
        /\ p[1] # p[2]
        /\ df[p[1]].amount = df[p[2]].amount
        /\ Ordinal(df[p[2]].date) >= Ordinal(df[p[1]].date)
        /\ Ordinal(df[p[2]].date) <= Ordinal(df[p[1]].date) + input.time_window }

\* the result row of the ordered pair (a, b)
PairRow(a, b) ==
    [date1 |-> a.date, merchant1 |-> a.merchant, amount |-> a.amount,
     date2 |-> b.date, merchant2 |-> b.merchant,
     days_apart |-> Ordinal(b.date) - Ordinal(a.date)]

\* the result holds the rows of the qualifying ordered pairs and no other
\* row, and every row has 0 <= days_apart <= time_window
RowsOfQualifyingPairs ==
    /\ Range(returned) = { PairRow(df[p[1]], df[p[2]]) : p \in QualifyingPairs }
    /\ \A k \in 1..Len(returned) :
          /\ returned[k].days_apart >= 0
          /\ returned[k].days_apart <= input.time_window
          /\ returned[k].days_apart =
                 Ordinal(returned[k].date2) - Ordinal(returned[k].date1)

\* C24 as stated: the result has a row for a pair exactly when the pair
\* qualifies, every qualifying ordered pair has a row of its own, and every
\* row has 0 <= days_apart <= time_window, the days from the first date to
\* the second.
C24_OneRowPerOrderedPair ==
    op = "find_duplicate_transactions" =>
        /\ RowsOfQualifyingPairs
        /\ Len(returned) = Cardinality(QualifyingPairs)

\* C24 as the code has it: the result has a row for a pair exactly when the
\* pair qualifies, qualifying ordered pairs that give the same six values
\* share one row, no row occurs twice, and every row has
\* 0 <= days_apart <= time_window, the days from the first date to the
\* second.
C24_OneRowPerDistinctPairRow ==
    op = "find_duplicate_transactions" =>
        /\ RowsOfQualifyingPairs
        /\ \A k, m \in 1..Len(returned) : k # m => returned[k] # returned[m]

\* with time_window 0 the frame holds one transaction twice and a third of
\* the same amount and day: six ordered pairs qualify and fewer rows are
\* returned
C24_Witness ==
    /\ op = "find_duplicate_transactions"
    /\ input.time_window = 0
    /\ Len(df) = 3
    /\ df[1] = df[2]
    /\ Cardinality(QualifyingPairs) = 6
    /\ Len(returned) < 6
    /\ returned # <<>>

----------------------------------------------------------------------------
(* The frame of categorization, checked under SpecCli *)

\* a transaction without its category
Uncategorized(t) ==
    [date |-> t.date, description |-> t.description, amount |-> t.amount,
     is_anomaly |-> t.is_anomaly]

\* C25: a transaction is created with is_anomaly false, and only the
\* detectors change the flag: process_statement appends unflagged
\* transactions and leaves the others as they are; categorize changes
\* nothing of a transaction but its category (the totals of the categories
\* apart), and adds, removes or reorders no transaction.
C25_OnlyDetectorsFlag ==
    [][ /\ op' = "process_statement" =>
              /\ Len(transactions') >= Len(transactions)
              /\ SubSeq(transactions', 1, Len(transactions)) = transactions
              /\ \A k \in (Len(transactions) + 1)..Len(transactions') :
                     ~transactions'[k].is_anomaly
        /\ op' = "categorize" =>
              /\ Len(transactions') = Len(transactions)
              /\ \A k \in 1..Len(transactions) :
                     Uncategorized(transactions'[k]) = Uncategorized(transactions[k])
        /\ op' \notin {"cli_detect_anomalies", "analyze"} =>
              /\ Len(transactions') >= Len(transactions)
              /\ \A k \in 1..Len(transactions) :
                     transactions'[k].is_anomaly = transactions[k].is_anomaly
      ]_vars

\* categorize has just given a flagged transaction another category than
\* the one it was created with
C25_Witness ==
    /\ op = "categorize"
    /\ \E k \in 1..Len(transactions) :
          /\ transactions[k].is_anomaly
          /\ transactions[k].category # "Uncategorized"

----------------------------------------------------------------------------
(* anomaly_detector.py: detect_frequency_anomalies on the visits of two    *)
(* payees                                                                  *)

\* longest list of visits
MaxVisits == 4

\* the visits a caller may add: one payee on four days, another on two
VisitPool ==
    { Transaction(Date(2024, 1, d), "Amazon", 10, "Shopping", FALSE) :
          d \in {1, 2, 3, 10} }
    \cup { Transaction(Date(2024, 1, d), "Uber", 10, "Transportation", FALSE) :
               d \in {2, 3} }

InitFreq ==
    /\ transactions = <<>>
    /\ baseline_stats = <<>>
    /\ predictions = {}
    /\ file = NoFile
    /\ Unused
    /\ returned = None
    /\ op = "init"

\* a new Transaction is appended to the list of visits
AddVisit(t) ==
    /\ Len(transactions) < MaxVisits
    /\ transactions' = Append(transactions, t)
    /\ returned' = None
    /\ op' = "add"
    /\ UNCHANGED <<baseline_stats, predictions, NotDetector>>

\* detect_frequency_anomalies on the list of visits
FrequencyDetection ==
    LET r == detect_frequency_anomalies(transactions)
    IN  /\ transactions' = r.transactions
        /\ returned' = r.anomalies
        /\ op' = "detect_frequency_anomalies"
        /\ UNCHANGED <<baseline_stats, predictions, NotDetector>>

NextFreq ==
    \/ \E t \in VisitPool : AddVisit(t)
    \/ FrequencyDetection

SpecFreq == InitFreq /\ [][NextFreq]_vars

\* the days of the payee group of transaction i, in rising order
GroupDays(txs, i) ==
    LET group == SelectSeq(Indices(txs),
                           LAMBDA j : txs[j].description = txs[i].description)
    IN  SortSeq([k \in 1..Len(group) |-> Ordinal(txs[group[k]].date)],
                LAMBDA a, b : a < b)

\* the payee group of transaction i has exactly two transactions, or the
\* same number of days between every two consecutive ones
TwoOrEvenlySpaced(txs, i) ==
    LET days == GroupDays(txs, i)
    IN  \/ Len(days) = 2
        \/ \A k \in 1..(Len(days) - 1) : days[k + 1] - days[k] = days[2] - days[1]

\* C26: the frequency detector flags no transaction of a payee group of
\* exactly two transactions, and none of a group whose consecutive gaps in
\* days are all equal, several transactions of one day included: what it
\* returns and flags belongs to groups of three or more with unequal gaps.
C26_NoFlagWithoutUnequalGaps ==
    [][ op' = "detect_frequency_anomalies" =>
            /\ \A i \in 1..Len(transactions) :
                   TwoOrEvenlySpaced(transactions, i) =>
                       transactions'[i].is_anomaly = transactions[i].is_anomaly
            /\ \A k \in 1..Len(returned') :
                   /\ Len(GroupDays(transactions, returned'[k])) >= 3
                   /\ ~TwoOrEvenlySpaced(transactions, returned'[k]) ]_vars

\* the detector has run on a list with three visits of one payee on three
\* days in a row, and has flagged nothing
C26_Witness ==
    /\ op = "detect_frequency_anomalies"
    /\ \E i \in 1..Len(transactions) :
          GroupDays(transactions, i)
              = <<Ordinal(Date(2024, 1, 1)), Ordinal(Date(2024, 1, 2)),
                  Ordinal(Date(2024, 1, 3))>>
    /\ Flagged(transactions) = {}
    /\ returned = <<>>

----------------------------------------------------------------------------
(* transaction_parser.py: _standardize_columns on the header of a CSV file *)

\* most columns of a file
MaxColumns == 3

\* column_mappings, in dict order
column_mappings ==
    << [standard_name |-> "date",
        variations |-> {"date", "transaction date", "posting date", "trans date"}],
       [standard_name |-> "merchant",
        variations |-> {"merchant", "description", "desc", "payee", "vendor"}],
       [standard_name |-> "amount",
        variations |-> {"amount", "debit", "withdrawal", "spent", "charge"}] >>

\* the first column of the header that is a variation of the mapping, 0
\* when none is
FirstVariation(columns, mapping) ==
    LET hits == { k \in 1..Len(columns) :
                    Lower(Strip(columns[k])) \in mapping.variations }
    IN  IF hits = {} THEN 0 ELSE Least(hits)

\* df.rename(columns=renamed_cols): for every mapping the first column that
\* is one of its variations gets the standard name, all others keep theirs
rename(columns) ==
    [k \in 1..Len(columns) |->
        IF \E m \in 1..Len(column_mappings) :
               FirstVariation(columns, column_mappings[m]) = k
        THEN column_mappings[
                 CHOOSE m \in 1..Len(column_mappings) :
                     FirstVariation(columns, column_mappings[m]) = k].standard_name
        ELSE columns[k]]

\* the number of columns that carry the name
Count(columns, name) == Cardinality({ k \in 1..Len(columns) : columns[k] = name })

\* df[keep_cols]: for every name of keep_cols in turn, all columns of that
\* name
RECURSIVE Select(_, _)
Select(columns, keep_cols) ==
    IF keep_cols = <<>> THEN <<>>
    ELSE SelectSeq(columns, LAMBDA c : c = Head(keep_cols))
         \o Select(columns, Tail(keep_cols))

\* _standardize_columns on a frame with these column names, as the names of
\* the columns of the frame it returns.  pd.to_datetime raises ValueError and
\* pd.to_numeric raises TypeError on the frame that df['date'] and
\* df['amount'] are when two columns carry the name.
standardize_columns(columns) ==
    LET renamed   == rename(columns)
        keep_cols == SelectSeq(<<"date", "merchant", "amount", "description">>,
                               LAMBDA c : Count(renamed, c) > 0)
    IN  IF Count(renamed, "date") > 1
        THEN [ok |-> FALSE, error |-> "ValueError", message |-> "to_datetime"]
        ELSE IF Count(renamed, "amount") > 1
        THEN [ok |-> FALSE, error |-> "TypeError", message |-> "to_numeric"]
        ELSE Returns(Select(renamed, keep_cols))

\* column names of the files
ColumnNames ==
    { "Date", "Transaction Date", "description", "merchant", "Payee",
      "amount", "Debit", "Balance" }

\* a file without columns
InitCsv ==
    /\ df = <<>>
    /\ input = None
    /\ returned = None
    /\ op = "init"
    /\ transactions = <<>>
    /\ baseline_stats = <<>>
    /\ predictions = {}
    /\ file = NoFile
    /\ expense_categories = None
    /\ categories = None
    /\ category_patterns = None
    /\ class_keywords = None
    /\ shared = {}

\* the file gets one more column, of a name it does not have yet
AddColumn(name) ==
    /\ Len(df) < MaxColumns
    /\ name \notin Range(df)
    /\ df' = Append(df, name)
    /\ input' = None
    /\ returned' = None
    /\ op' = "add_column"
    /\ UNCHANGED NotDataFrame

\* parse_csv_statement: the frame read from the file is standardized
StandardizeColumns ==
    /\ input' = None
    /\ returned' = standardize_columns(df)
    /\ op' = "_standardize_columns"
    /\ UNCHANGED <<df, NotDataFrame>>

NextCsv ==
    \/ \E name \in ColumnNames : AddColumn(name)
    \/ StandardizeColumns

SpecCsv == InitCsv /\ [][NextCsv]_vars

\* C27: the frame _standardize_columns returns has each of the names date,
\* merchant, amount and description on at most one column and no column of
\* another name, whatever the names and the order of the columns it is
\* given.
C27_CanonicalColumnsOnce ==
    (op = "_standardize_columns" /\ returned.ok) =>
        /\ Range(returned.value) \subseteq {"date", "merchant", "amount", "description"}
        /\ \A name \in Range(returned.value) : Count(returned.value, name) = 1

----------------------------------------------------------------------------
(* anomaly_detector.py: one detector whose calculate_baseline_stats is     *)
(* called on one list after another                                        *)

\* longest list given to calculate_baseline_stats
MaxGiven == 3

\* the lists a caller may give
GivenLists ==
    UNION { [1..n -> TxPool] : n \in 1..MaxGiven }

InitBase ==
    /\ transactions = <<>>
    /\ baseline_stats = <<>>
    /\ predictions = {}
    /\ file = NoFile
    /\ Unused
    /\ returned = None
    /\ op = "init"

\* calculate_baseline_stats(txs) on the detector as it is
CalculateBaselineStatsOn(txs) ==
    /\ transactions' = txs
    /\ baseline_stats' = calculate_baseline_stats(baseline_stats, txs)
    /\ returned' = None
    /\ op' = "calculate_baseline_stats"
    /\ UNCHANGED <<predictions, NotDetector>>

NextBase ==
    \/ \E txs \in GivenLists : CalculateBaselineStatsOn(txs)
    \/ NewDetector

SpecBase == InitBase /\ [][NextBase]_vars

\* C28: after calculate_baseline_stats(T) the baseline has an entry for
\* exactly the categories that occur in T, each with the statistics of that
\* category's amounts in T; no entry from an earlier list is left.
C28_BaselineOfTheListAlone ==
    op = "calculate_baseline_stats" =>
        /\ DOMAIN baseline_stats = CategoriesOf(transactions)
        /\ ComputedFrom(baseline_stats, transactions)

----------------------------------------------------------------------------
(* The place of a category added at run time, checked under SpecOrder *)

\* new is old after dict[c.name] = c.keywords: a new name is the last item
\* and the items before it are those of old; a name that old has keeps its
\* place and gets the keywords, and every other item is as it was
SetInPlace(old, new, c) ==
    IF c.name \in Keys(old)
    THEN /\ Len(new) = Len(old)
         /\ \A i \in 1..Len(old) :
               /\ new[i].name = old[i].name
               /\ old[i].name = c.name => new[i].keywords = c.keywords
               /\ old[i].name # c.name => new[i] = old[i]
    ELSE /\ Len(new) = Len(old) + 1
         /\ new[Len(new)].name = c.name
         /\ new[Len(new)].keywords = c.keywords
         /\ SubSeq(new, 1, Len(old)) = old

\* new is old after the items of a dict were set one after the other
RECURSIVE SetAllInPlace(_, _, _)
SetAllInPlace(old, new, items) ==
    IF items = <<>> THEN new = old
    ELSE \E mid \in {SetItem(old, Head(items))} :
             /\ SetInPlace(old, mid, Head(items))
             /\ SetAllInPlace(mid, new, Tail(items))

\* the category returned is not preceded by a category with a keyword that
\* occurs in the text
NoEarlierMatch(cats, text, name) ==
    \A i \in 1..Len(cats) :
        cats[i].name = name =>
            \A j \in 1..(i - 1) : j \notin Matching(cats, text)

\* C29: a category added at run time, by add_custom_category or as a new
\* name of custom_categories at construction, is the last of the evaluation
\* order, and adding a name that exists replaces its keywords where it
\* stands; so the category returned for a text is preceded by no category
\* with a keyword occurring in the text.
C29_AddedCategoriesComeLast ==
    [][ /\ op' = "ExpenseCategorizer.add_custom_category" =>
              SetInPlace(expense_categories, expense_categories', input')
        /\ op' = "TransactionCategorizer.add_custom_category" =>
              SetInPlace(categories, categories', input')
        /\ (op' = "TransactionCategorizer" /\ input' # None) =>
              SetAllInPlace(class_keywords, categories', input')
        /\ categories' # None =>
              /\ Len(category_patterns') = Len(categories')
              /\ \A i \in 1..Len(categories') :
                     category_patterns'[i].name = categories'[i].name
        /\ op' = "ExpenseCategorizer.categorize_transaction" =>
              NoEarlierMatch(expense_categories', input'.description, returned')
        /\ op' = "TransactionCategorizer.categorize_transaction" =>
              NoEarlierMatch(categories',
                             input'.merchant \o " " \o input'.description,
                             returned')
      ]_vars

----------------------------------------------------------------------------
(* The z-score tests on one group of amounts: analyzer.py                   *)
(* SpendingAnalyzer.detect_anomalies(method='zscore') and the statistical   *)
(* detector, each on a group drawn whole                                    *)

\* largest group of amounts
MaxGroup == 11

\* the threshold detect_anomalies has by default, 3.0
DefaultThreshold == Ratio(ZThreshold, 1)

\* the thresholds detect_anomalies is called with: the default and the 2.5
\* get_insights passes
Thresholds == {DefaultThreshold, Ratio(5, 2)}

\* str(threshold)
ThresholdText(threshold) == IF threshold = DefaultThreshold THEN "3.0" ELSE "2.5"

\* k times x
Copies(x, k) == [i \in 1..k |-> x]

\* the groups: two ordinary amounts, one of them a refund, and one far amount,
\* each any number of times
AmountLists ==
    { Copies(4, t[1]) \o Copies(-6, t[2]) \o Copies(100, t[3]) :
        t \in { u \in (0..MaxGroup) \X (0..MaxGroup) \X (0..MaxGroup) :
                  u[1] + u[2] + u[3] <= MaxGroup } }

\* mutant: the mean and the standard deviation are those of the other amounts
zscore_exceeds_leaving_out(amounts, k, threshold) ==
    LET others == SubSeq(amounts, 1, k - 1) \o SubSeq(amounts, k + 1, Len(amounts))
        n      == Len(others)
        sum    == SumSeq(others)
        sumsq  == SumSeq([i \in 1..n |-> others[i] * others[i]])
        dev    == n * amounts[k] - sum
        varn2  == n * sumsq - sum * sum
    IN  /\ varn2 > 0
        /\ threshold.den * threshold.den * dev * dev
               > threshold.num * threshold.num * varn2

\* np.abs(stats.zscore(amounts))[k] > threshold.  scipy divides the distance
\* from the mean by the population standard deviation of amounts; with a
\* standard deviation of 0 the score is nan, which exceeds nothing.  With
\* dev = n*x - sum and varn2 = n*sumsq - sum^2 the score is |dev| / sqrt(varn2)
zscore_exceeds(amounts, k, threshold) ==
    LET n     == Len(amounts)
        sum   == SumSeq(amounts)
        sumsq == SumSeq([i \in 1..n |-> amounts[i] * amounts[i]])
        dev   == n * amounts[k] - sum
        varn2 == n * sumsq - sum * sum
    IN  /\ varn2 > 0
        /\ threshold.den * threshold.den * dev * dev
               > threshold.num * threshold.num * varn2

\* _detect_zscore_anomalies: the rows whose score exceeds the threshold, with
\* the columns z_score (kept as its square, an exact ratio) and reason, sorted
\* by amount, largest first
detect_zscore_anomalies(frame, threshold) ==
    LET amounts == Amounts(frame)
        n       == Len(amounts)
        sum     == SumSeq(amounts)
        varn2   == n * SumSeq([i \in 1..n |-> amounts[i] * amounts[i]]) - sum * sum
        hit     == SelectSeq([i \in 1..n |-> i],
                             LAMBDA i : zscore_exceeds(amounts, i, threshold))
        anomalies ==
            [k \in 1..Len(hit) |->
                [date    |-> frame.rows[hit[k]].date,
                 merchant |-> frame.rows[hit[k]].merchant,
                 amount  |-> frame.rows[hit[k]].amount,
                 z_score_squared |->
                     Ratio((n * amounts[hit[k]] - sum) * (n * amounts[hit[k]] - sum),
                           varn2),
                 reason  |-> "Unusually high amount (Z-score > "
                                 \o ThresholdText(threshold) \o ")"]]
    IN  SortBy(LAMBDA r : -r.amount, anomalies)

\* an analyzer on a frame whose amounts are one group, and a fresh detector
\* with the same amounts as the transactions of one category, alone or next
\* to a transaction of another category
InitGroup ==
    /\ \E amounts \in AmountLists :
          /\ df = Frame({"date", "merchant", "amount"},
                        [k \in 1..Len(amounts) |->
                            Row(Date(2024, 1, k), "Amazon", amounts[k])])
          /\ \E others \in {<<>>,
                            <<Transaction(Date(2024, 1, 2), "Uber", 45,
                                          "Transportation", FALSE)>>} :
                transactions =
                    [k \in 1..Len(amounts) |->
                        Transaction(Date(2024, 1, k), "Amazon", amounts[k],
                                    "Shopping", FALSE)] \o others
    /\ baseline_stats = <<>>
    /\ predictions = {}
    /\ file = NoFile
    /\ expense_categories = None
    /\ categories = None
    /\ category_patterns = None
    /\ class_keywords = None
    /\ shared = {}
    /\ input = None
    /\ returned = None
    /\ op = "init"

\* detect_anomalies(method='zscore', threshold=threshold)
DetectAnomalies(threshold) ==
    /\ input' = threshold
    /\ returned' = detect_zscore_anomalies(df, threshold)
    /\ op' = "detect_anomalies"
    /\ UNCHANGED <<df, NotDataFrame>>

NextGroup ==
    \/ \E threshold \in Thresholds : DetectAnomalies(threshold)
    \/ DetectStatisticalAnomalies

SpecGroup == InitGroup /\ [][NextGroup]_vars

\* the largest group in which no score can exceed ZThreshold: the largest
\* score n amounts can hold is (n - 1) / sqrt(n), and (n - 1)^2 > 9 * n only
\* from n = 11 on
SmallGroup == ZThreshold * ZThreshold + 1

====
